---- MODULE Spec2Model ----
(***************************************************************************)
(* Model of rust_tcp_data_share: the incremental framer                    *)
(* (ProtocolBuffer::process_new_buffer, src/src/main.rs) and the read      *)
(* worker / endpoint handle of TcpIpc (src/src/tcp_ipc.rs).                *)
(*                                                                         *)
(* Option<T> is modelled as a sequence of length at most one: <<>> is None *)
(* and <<x>> is Some(x).  A Vec<u8> is a sequence of naturals below 256.   *)
(***************************************************************************)
EXTENDS Naturals, Sequences, FiniteSets, TLC

(***************************************************************************)
(* Bounds of the model.                                                    *)
(***************************************************************************)
MaxMsgs == 2
MaxPayloadLen == 2
MaxCalls == 3
MaxCheckCount == 1
MaxSocketEvents == 2
MaxAppCalls == 2
MaxQueryRetries == 1
MaxFairSocketEvents == 1

(***************************************************************************)
(* Program constants.                                                      *)
(***************************************************************************)
HEADER_SIZE == 6
SIZE_BYTES == 3
BUFFER_SIZE == 128
Start == 1
QueryIsBusy == 12

(***************************************************************************)
(* The protocol capability.  The module `protocol_buffer` that holds the   *)
(* Protocol trait and its example implementation is not part of the        *)
(* sources at hand; the capability is the one the specification's          *)
(* scenarios use: a 6-byte header of 3 big-endian length bytes followed by *)
(* 3 big-endian command bytes.                                             *)
(***************************************************************************)
Commands == {Start, QueryIsBusy}

PayloadBytes == {97}

Payloads == UNION {[1..n -> PayloadBytes] : n \in 0..MaxPayloadLen}

Idle == [kind |-> "Idle", data |-> <<>>]

Working(x) == [kind |-> "Working", data |-> x]

\* A busy state for which the protocol asks for an immediate reply that
\* construct_message cannot build.
Stalled == [kind |-> "Stalled", data |-> <<>>]

\* A command code that does not fit the 3 command bytes of the header.
Unencodable == 256 * 65536

BigEndian3(n) == <<n \div 65536, (n \div 256) % 256, n % 256>>

FromBigEndian3(b) == b[1] * 65536 + b[2] * 256 + b[3]

\* construct_message(command, payload) -> Option<Vec<u8>>
ConstructMessage(command, payload) ==
    IF command \in Commands /\ Len(payload) < 16777216
    THEN <<BigEndian3(Len(payload)) \o BigEndian3(command) \o payload>>
    ELSE <<>>

\* message_slice_to_header_array(bytes) -> Option<(HeaderArray, remainder)>
MessageSliceToHeaderArray(bytes) ==
    IF Len(bytes) < HEADER_SIZE
    THEN <<>>
    ELSE <<[header |-> SubSeq(bytes, 1, HEADER_SIZE),
            message |-> SubSeq(bytes, HEADER_SIZE + 1, Len(bytes))]>>

\* parse_header(header) -> Result<(Commands, usize), (ParseHeaderError, HeaderArray)>
ParseHeader(header) ==
    LET length == FromBigEndian3(SubSeq(header, 1, SIZE_BYTES))
        command == FromBigEndian3(SubSeq(header, SIZE_BYTES + 1, HEADER_SIZE))
    IN  IF command \in Commands
        THEN [ok |-> TRUE, command |-> command, length |-> length]
        ELSE [ok |-> FALSE, command |-> command, length |-> length]

\* message_is_answered_via_immediate_route(&command, &payload, &busy_state)
MessageIsAnsweredViaImmediateRoute(command, payload, busy_state) ==
    IF command = QueryIsBusy /\ busy_state.kind = "Working"
    THEN <<[command |-> QueryIsBusy, payload |-> busy_state.data]>>
    ELSE IF command = QueryIsBusy /\ busy_state = Stalled
    THEN <<[command |-> Unencodable, payload |-> <<97>>]>>
    ELSE <<>>

(***************************************************************************)
(* ProtocolBuffer (src/src/main.rs).                                       *)
(***************************************************************************)
\* ProtocolBuffer::new
NewProtocolBuffer ==
    [current_command |-> <<>>,
     current_target |-> 0,
     current_message |-> <<>>,
     incoming_buffer_vec |-> <<>>,
     busy_state |-> Idle]

\* The result of one process_new_buffer call: the buffer after the call, the
\* messages it returned (the code returns an Option, so at most one) and
\* whether the call panicked instead of returning.
CallResult(pb, ret, panic) == [pb |-> pb, ret |-> ret, panic |-> panic]

\* PayloadBranch with the completed payload copied out of current_message
\* instead of moved out (split_off(0) replaced by a clone).
PayloadBranchKeepsMessage(pb) ==
    IF Len(pb.incoming_buffer_vec) + Len(pb.current_message) < pb.current_target
    THEN CallResult([pb EXCEPT !.current_message = @ \o pb.incoming_buffer_vec,
                               !.incoming_buffer_vec = <<>>],
                    <<>>, FALSE)
    ELSE LET completed_message == pb.current_message
             at == pb.current_target - Len(completed_message)
             to_append == SubSeq(pb.incoming_buffer_vec, at + 1,
                                 Len(pb.incoming_buffer_vec))
         IN  CallResult([pb EXCEPT !.incoming_buffer_vec = to_append,
                                   !.current_target = 0,
                                   !.current_command = <<>>],
                        <<[command |-> pb.current_command[1],
                           payload |-> completed_message
                                       \o SubSeq(pb.incoming_buffer_vec, 1, at)]>>,
                        FALSE)

\* PayloadBranch with the bytes behind the completed payload dropped
\* (to_append never appended back to incoming_buffer_vec).
PayloadBranchDropsSpill(pb) ==
    IF Len(pb.incoming_buffer_vec) + Len(pb.current_message) < pb.current_target
    THEN CallResult([pb EXCEPT !.current_message = @ \o pb.incoming_buffer_vec,
                               !.incoming_buffer_vec = <<>>],
                    <<>>, FALSE)
    ELSE LET completed_message == pb.current_message
             at == pb.current_target - Len(completed_message)
         IN  CallResult([pb EXCEPT !.current_message = <<>>,
                                   !.incoming_buffer_vec = <<>>,
                                   !.current_target = 0,
                                   !.current_command = <<>>],
                        <<[command |-> pb.current_command[1],
                           payload |-> completed_message
                                       \o SubSeq(pb.incoming_buffer_vec, 1, at)]>>,
                        FALSE)

\* process_new_buffer, the branch taken while a command is pending
\* (main.rs lines 77-91).
PayloadBranch(pb) ==
    IF Len(pb.incoming_buffer_vec) + Len(pb.current_message) < pb.current_target
    THEN CallResult([pb EXCEPT !.current_message = @ \o pb.incoming_buffer_vec,
                               !.incoming_buffer_vec = <<>>],
                    <<>>, FALSE)
    ELSE LET completed_message == pb.current_message
             at == pb.current_target - Len(completed_message)
             to_append == SubSeq(pb.incoming_buffer_vec, at + 1,
                                 Len(pb.incoming_buffer_vec))
         IN  CallResult([pb EXCEPT !.current_message = <<>>,
                                   !.incoming_buffer_vec = to_append,
                                   !.current_target = 0,
                                   !.current_command = <<>>],
                        <<[command |-> pb.current_command[1],
                           payload |-> completed_message
                                       \o SubSeq(pb.incoming_buffer_vec, 1, at)]>>,
                        FALSE)

\* HeaderBranch that takes a header only when more than HEADER_SIZE bytes are
\* staged (<= written for <).
HeaderBranchOffByOne(pb) ==
    LET h == MessageSliceToHeaderArray(pb.incoming_buffer_vec)
    IN  IF h = <<>> \/ Len(pb.incoming_buffer_vec) <= HEADER_SIZE
        THEN CallResult(pb, <<>>, FALSE)
        ELSE LET parsed == ParseHeader(h[1].header)
                 message == h[1].message
                 length == parsed.length
                 set == [pb EXCEPT !.current_command = <<parsed.command>>,
                                   !.current_target = length,
                                   !.current_message = message]
             IN  IF ~parsed.ok
                 THEN CallResult(pb, <<>>, TRUE)
                 ELSE IF length > Len(message)
                 THEN CallResult(set, <<>>, TRUE)
                 ELSE PayloadBranch(
                        [set EXCEPT !.current_message = SubSeq(message, 1, length),
                                    !.incoming_buffer_vec =
                                        SubSeq(message, length + 1, Len(message))])

\* process_new_buffer, the branch taken while no command is pending
\* (main.rs lines 93-111).  Vec::split_off(at) panics when at > len, and the
\* code panics itself when parse_header fails.
HeaderBranch(pb) ==
    LET h == MessageSliceToHeaderArray(pb.incoming_buffer_vec)
    IN  IF h = <<>>
        THEN CallResult(pb, <<>>, FALSE)
        ELSE LET parsed == ParseHeader(h[1].header)
                 message == h[1].message
                 length == parsed.length
                 set == [pb EXCEPT !.current_command = <<parsed.command>>,
                                   !.current_target = length,
                                   !.current_message = message]
             IN  IF ~parsed.ok
                 THEN CallResult(pb, <<>>, TRUE)
                 ELSE IF length > Len(message)
                 THEN CallResult(set, <<>>, TRUE)
                 ELSE PayloadBranch(
                        [set EXCEPT !.current_message = SubSeq(message, 1, length),
                                    !.incoming_buffer_vec =
                                        SubSeq(message, length + 1, Len(message))])

\* process_new_buffer that goes on framing after a message and returns every
\* complete message it finds.
ProcessNewBufferEager(pb, incoming_buffer) ==
    LET extended == [pb EXCEPT !.incoming_buffer_vec = @ \o incoming_buffer]
        first == IF extended.current_command # <<>>
                 THEN PayloadBranch(extended)
                 ELSE HeaderBranch(extended)
        second == HeaderBranch(first.pb)
    IN  IF first.ret = <<>> \/ first.panic
        THEN first
        ELSE CallResult(second.pb, first.ret \o second.ret, second.panic)

\* process_new_buffer that leaves the busy state at idle.
ProcessNewBufferResetsBusy(pb, incoming_buffer) ==
    LET extended == [pb EXCEPT !.incoming_buffer_vec = @ \o incoming_buffer]
        r == IF extended.current_command # <<>>
             THEN PayloadBranch(extended)
             ELSE HeaderBranch(extended)
    IN  CallResult([r.pb EXCEPT !.busy_state = Idle], r.ret, r.panic)

\* ProtocolBuffer::process_new_buffer(&mut self, incoming_buffer)
ProcessNewBuffer(pb, incoming_buffer) ==
    LET extended == [pb EXCEPT !.incoming_buffer_vec = @ \o incoming_buffer]
    IN  IF extended.current_command # <<>>
        THEN PayloadBranch(extended)
        ELSE HeaderBranch(extended)

(***************************************************************************)
(* Helpers over byte streams.                                              *)
(***************************************************************************)
Messages == [command : Commands, payload : Payloads]

MessageSeqs == UNION {[1..n -> Messages] : n \in 1..MaxMsgs}

RECURSIVE Wire(_)
\* The bytes on the wire of a sequence of messages, each built by
\* construct_message.
Wire(ms) ==
    IF ms = <<>>
    THEN <<>>
    ELSE ConstructMessage(ms[1].command, ms[1].payload)[1] \o Wire(Tail(ms))

(***************************************************************************)
(* State.                                                                  *)
(*   msgs     the messages the byte stream is made of                      *)
(*   fA, fB   two frame buffers fed the same stream, each with its own     *)
(*            chunking: the buffer, the bytes fed so far, the messages     *)
(*            emitted so far, the return of the last call, the number of   *)
(*            calls made (counted up to MaxCalls), the length of the first *)
(*            chunk fed and whether a call panicked                        *)
(*   config   TcpIpcConfig: check_count                                    *)
(*   worker   the read thread: its position in the loop, counter, the      *)
(*            ProtocolBuffer it owns and the slice of the drain loop       *)
(*   chan     the five channels between handle and read thread             *)
(*   app      the application thread and the TcpIpc handle it holds; the   *)
(*            bytes a running write_all has still to write (pending)       *)
(*   sock     the connection: bytes the peer sent that are not yet read,   *)
(*            and what was written to the peer                             *)
(*   hist     history: what the peer sent, how each framed message was     *)
(*            handled, what was posted and what get_message returned, the  *)
(*            updates submitted and the query results; the loop iterations *)
(*            begun since the last control-plane pass (iter), the number   *)
(*            of iterations from one pass to the next (period), the        *)
(*            iterations begun with a shutdown signal queued (afterSignal) *)
(*            and why the read thread ended (exit); what became of the two *)
(*            steps of shutdown() (shutdownSteps); what the last and the   *)
(*            last but one get_message call returned (lastGet, prevGet);   *)
(*            the write_message calls made, arguments and result (writes); *)
(*            the last await_message or clear_message_queue call: how many *)
(*            items were queued when it was called, the items it removed   *)
(*            from the channel, its result and how many items were queued  *)
(*            when it returned (op); whether a read has returned Ok(0)     *)
(*            (readZero)                                                   *)
(***************************************************************************)
VARIABLES msgs, fA, fB, config, worker, chan, app, sock, hist

fvars == <<msgs, fA, fB>>

wvars == <<config, worker, chan, app, sock, hist>>

vars == <<msgs, fA, fB, config, worker, chan, app, sock, hist>>

NewFramer ==
    [pb |-> NewProtocolBuffer,
     fed |-> 0,
     emitted |-> <<>>,
     lastRet |-> <<>>,
     calls |-> 0,
     first |-> 0,
     panicked |-> FALSE]

\* One call process_new_buffer(chunk) on frame buffer f, as the read loop
\* makes it (tcp_ipc.rs lines 314-318).
CallFramer(f, chunk) ==
    LET r == ProcessNewBuffer(f.pb, chunk)
    IN  [pb |-> r.pb,
         fed |-> f.fed + Len(chunk),
         emitted |-> f.emitted \o r.ret,
         lastRet |-> r.ret,
         calls |-> IF f.calls < MaxCalls THEN f.calls + 1 ELSE f.calls,
         first |-> IF f.calls = 0 THEN Len(chunk) ELSE f.first,
         panicked |-> r.panic]

Stream == Wire(msgs)

\* The chunks a read may deliver next: any non-empty run of the bytes not
\* yet fed, at most BUFFER_SIZE long.
NextChunks(f) ==
    {SubSeq(Stream, f.fed + 1, f.fed + n) :
        n \in 1..(IF Len(Stream) - f.fed < BUFFER_SIZE
                  THEN Len(Stream) - f.fed ELSE BUFFER_SIZE)}

\* The state right after start_read_thread returned (tcp_ipc.rs lines
\* 256-265, 376-384).
InitEndpoint(check_count) ==
    /\ config = [check_count |-> check_count]
    /\ worker = [pc |-> "loop", counter |-> 0,
                 protocol |-> NewProtocolBuffer, buffer |-> <<>>]
    /\ chan = [shutdown |-> 0, query |-> 0, update |-> <<>>,
               queried |-> <<>>, message |-> <<>>]
    /\ app = [handle |-> "alive", pc |-> "idle",
              shutdown_requested_succesfully |-> FALSE,
              shutdown_result |-> <<>>, pending |-> <<>>]
    /\ sock = [inbound |-> <<>>, wire |-> <<>>,
               peerClosed |-> FALSE, shutdown |-> FALSE]
    /\ hist = [peerSent |-> <<>>, handled |-> <<>>, posted |-> <<>>,
               returned |-> <<>>, updates |-> <<>>, queries |-> <<>>,
               calls |-> 0, socketEvents |-> 0,
               iter |-> 0, period |-> 0, afterSignal |-> 0, exit |-> "",
               shutdownSteps |-> <<>>, lastGet |-> <<>>, prevGet |-> <<>>,
               writes |-> <<>>, op |-> <<>>, readZero |-> FALSE]

InitFramer ==
    /\ msgs \in MessageSeqs
    /\ fA = NewFramer
    /\ fB = NewFramer
    /\ InitEndpoint(1)

\* A read delivered a chunk: the first call of the drain loop.
FeedA ==
    /\ ~fA.panicked
    /\ fA.lastRet = <<>>
    /\ \E chunk \in NextChunks(fA) : fA' = CallFramer(fA, chunk)
    /\ UNCHANGED <<msgs, fB, wvars>>

\* The drain loop calls again with an empty slice after a message.
DrainA ==
    /\ ~fA.panicked
    /\ fA.lastRet # <<>>
    /\ fA' = CallFramer(fA, <<>>)
    /\ UNCHANGED <<msgs, fB, wvars>>

FeedB ==
    /\ ~fB.panicked
    /\ fB.lastRet = <<>>
    /\ \E chunk \in NextChunks(fB) : fB' = CallFramer(fB, chunk)
    /\ UNCHANGED <<msgs, fA, wvars>>

DrainB ==
    /\ ~fB.panicked
    /\ fB.lastRet # <<>>
    /\ fB' = CallFramer(fB, <<>>)
    /\ UNCHANGED <<msgs, fA, wvars>>

NextFramer == FeedA \/ DrainA

SpecFramer == InitFramer /\ [][NextFramer]_vars

NextPurity == FeedA \/ DrainA \/ FeedB \/ DrainB

SpecPurity == InitFramer /\ [][NextPurity]_vars

(***************************************************************************)
(* The endpoint: TcpIpc and its read thread (src/src/tcp_ipc.rs).          *)
(***************************************************************************)
\* What the peer sends and what the application reports as busy state.
PeerMessages ==
    {[command |-> QueryIsBusy, payload |-> <<>>],
     [command |-> Start, payload |-> <<97>>]}

BusyStates == {Idle, Working(<<97>>), Stalled}

\* The read thread has left its loop (or panicked): its ends of the channels
\* are dropped.
WorkerGone == worker.pc \in {"finished", "panicked"}

\* A handle whose channel ends outlive it unless shutdown() consumed it.
HandleGoneAfterShutdownOnly ==
    app.handle = "gone" /\ hist.shutdownSteps # <<>>

\* The handle was dropped or consumed: its ends of the channels are dropped.
HandleGone == app.handle = "gone"

\* A try_recv that reports a dropped sender before the values still queued.
TryRecvDisconnectedFirst(queue, senderGone) ==
    IF senderGone
    THEN [r |-> "Disconnected", v |-> <<>>]
    ELSE IF queue # <<>>
         THEN [r |-> "Ok", v |-> <<Head(queue)>>]
         ELSE [r |-> "Empty", v |-> <<>>]

\* Receiver::try_recv on a channel holding `queue`.
TryRecv(queue, senderGone) ==
    IF queue # <<>>
    THEN [r |-> "Ok", v |-> <<Head(queue)>>]
    ELSE IF senderGone
         THEN [r |-> "Disconnected", v |-> <<>>]
         ELSE [r |-> "Empty", v |-> <<>>]

\* try_recv on a channel of (): only the number of queued values matters.
TryRecvUnit(count, senderGone) ==
    IF count > 0 THEN "Ok" ELSE IF senderGone THEN "Disconnected" ELSE "Empty"

\* Result<Message<P>, ReadThreadErrorsInternal<P>>, the items of the message
\* channel.
OkItem(m) ==
    [enum |-> "Message", variant |-> "Ok",
     command |-> m.command, payload |-> m.payload]

\* An error report that leaves out the command and payload it is about.
InternalErrorWithoutPayload(variant, command, payload) ==
    [enum |-> "ReadThreadErrorsInternal", variant |-> variant,
     command |-> 0, payload |-> <<>>]

InternalError(variant, command, payload) ==
    [enum |-> "ReadThreadErrorsInternal", variant |-> variant,
     command |-> command, payload |-> payload]

\* ReadThreadErrors<P>, the public error of get_message.
PublicError(variant, command, payload) ==
    [enum |-> "ReadThreadErrors", variant |-> variant,
     command |-> command, payload |-> payload]

\* TcpIpc::get_message with the variants of two of the errors exchanged.
GetMessageSwapsErrors(item) ==
    IF item.variant = "Ok"
    THEN item
    ELSE IF item.variant = "WriteError"
    THEN PublicError("ReadError", item.command, item.payload)
    ELSE IF item.variant = "ReadError"
    THEN PublicError("WriteError", item.command, item.payload)
    ELSE PublicError("ImmediateMessageConstructError",
                     item.command, item.payload)

\* TcpIpc::get_message: what it returns for an item taken from the message
\* channel (tcp_ipc.rs lines 420-427).
GetMessageResult(item) ==
    IF item.variant = "Ok"
    THEN item
    ELSE IF item.variant = "WriteError"
    THEN PublicError("WriteError", item.command, item.payload)
    ELSE IF item.variant = "ReadError"
    THEN PublicError("ReadError", item.command, item.payload)
    ELSE PublicError("ImmediateMessageConstructError",
                     item.command, item.payload)

\* message_sender.send(item) in the read thread: it fails when the handle,
\* which holds the receiver, is gone, and the thread then leaves its loop;
\* otherwise the item is queued and the thread goes on at `pc`.
SendMessage(item, w, pc) ==
    IF HandleGone
    THEN /\ worker' = [w EXCEPT !.pc = "finished"]
         /\ UNCHANGED chan
    ELSE /\ worker' = [w EXCEPT !.pc = pc]
         /\ chan' = [chan EXCEPT !.message = Append(@, item)]

Posted(item) == IF HandleGone THEN <<>> ELSE <<item>>

\* Why the read thread ended, after a message_sender.send: the failed send,
\* or as before.
SendFailure(exit) == IF HandleGone THEN "send_failed" ELSE exit

\* Top of 'read_loop with a received shutdown signal treated like an empty
\* channel.
WorkerLoopIgnoresShutdown ==
    /\ worker.pc = "loop"
    /\ IF worker.counter = config.check_count
       THEN LET tr == TryRecvUnit(chan.shutdown, HandleGone)
                h == [hist EXCEPT
                        !.iter = 0,
                        !.period = hist.iter + 1,
                        !.afterSignal = IF chan.shutdown > 0 /\ @ < MaxCheckCount + 2
                                        THEN @ + 1 ELSE @]
            IN  IF tr = "Disconnected"
                THEN /\ worker' = [worker EXCEPT !.counter = 0, !.pc = "finished"]
                     /\ hist' = [h EXCEPT !.exit = "control_dropped"]
                ELSE /\ worker' = [worker EXCEPT !.counter = 0, !.pc = "query"]
                     /\ hist' = h
       ELSE /\ worker' = [worker EXCEPT !.counter = @ + 1, !.pc = "read"]
            /\ hist' = [hist EXCEPT
                  !.iter = @ + 1,
                  !.afterSignal = IF chan.shutdown > 0 /\ @ < MaxCheckCount + 2
                                  THEN @ + 1 ELSE @]
    /\ UNCHANGED <<fvars, config, chan, app, sock>>

\* The loop head that services the control plane without resetting the
\* counter.
WorkerLoopKeepsCounter ==
    /\ worker.pc = "loop"
    /\ IF worker.counter = config.check_count
       THEN LET tr == TryRecvUnit(chan.shutdown, HandleGone)
                h == [hist EXCEPT
                        !.iter = 0,
                        !.period = hist.iter + 1,
                        !.afterSignal = IF chan.shutdown > 0 THEN @ + 1 ELSE @]
            IN  IF tr = "Ok"
                THEN /\ worker' = [worker EXCEPT !.counter = config.check_count, !.pc = "finished"]
                     /\ chan' = [chan EXCEPT !.shutdown = @ - 1]
                     /\ hist' = [h EXCEPT !.exit = "shutdown"]
                ELSE IF tr = "Disconnected"
                THEN /\ worker' = [worker EXCEPT !.counter = config.check_count, !.pc = "finished"]
                     /\ UNCHANGED chan
                     /\ hist' = [h EXCEPT !.exit = "control_dropped"]
                ELSE /\ worker' = [worker EXCEPT !.counter = config.check_count, !.pc = "query"]
                     /\ UNCHANGED chan
                     /\ hist' = h
       ELSE /\ worker' = [worker EXCEPT !.counter = @ + 1, !.pc = "read"]
            /\ UNCHANGED chan
            /\ hist' = [hist EXCEPT
                  !.iter = @ + 1,
                  !.afterSignal = IF chan.shutdown > 0 THEN @ + 1 ELSE @]
    /\ UNCHANGED <<fvars, config, app, sock>>

\* Top of 'read_loop (lines 267-278, 306-308): the counter, and every
\* check_count-th iteration the shutdown channel.
WorkerLoop ==
    /\ worker.pc = "loop"
    /\ IF worker.counter = config.check_count
       THEN LET tr == TryRecvUnit(chan.shutdown, HandleGone)
                h == [hist EXCEPT
                        !.iter = 0,
                        !.period = hist.iter + 1,
                        !.afterSignal = IF chan.shutdown > 0 THEN @ + 1 ELSE @]
            IN  IF tr = "Ok"
                THEN /\ worker' = [worker EXCEPT !.counter = 0, !.pc = "finished"]
                     /\ chan' = [chan EXCEPT !.shutdown = @ - 1]
                     /\ hist' = [h EXCEPT !.exit = "shutdown"]
                ELSE IF tr = "Disconnected"
                THEN /\ worker' = [worker EXCEPT !.counter = 0, !.pc = "finished"]
                     /\ UNCHANGED chan
                     /\ hist' = [h EXCEPT !.exit = "control_dropped"]
                ELSE /\ worker' = [worker EXCEPT !.counter = 0, !.pc = "query"]
                     /\ UNCHANGED chan
                     /\ hist' = h
       ELSE /\ worker' = [worker EXCEPT !.counter = @ + 1, !.pc = "read"]
            /\ UNCHANGED chan
            /\ hist' = [hist EXCEPT
                  !.iter = @ + 1,
                  !.afterSignal = IF chan.shutdown > 0 THEN @ + 1 ELSE @]
    /\ UNCHANGED <<fvars, config, app, sock>>

\* The busy-state query (lines 279-294): at most one query is answered, with
\* the busy state the ProtocolBuffer holds now.
\* The query step that sends the busy state whether or not a query came.
WorkerQueryAnswersUnasked ==
    /\ worker.pc = "query"
    /\ LET tr == TryRecvUnit(chan.query, HandleGone)
       IN  IF tr = "Disconnected"
           THEN /\ worker' = [worker EXCEPT !.pc = "finished"]
                /\ hist' = [hist EXCEPT !.exit = "control_dropped"]
                /\ UNCHANGED chan
           ELSE IF HandleGone
           THEN /\ worker' = [worker EXCEPT !.pc = "finished"]
                /\ chan' = [chan EXCEPT
                              !.query = IF tr = "Ok" THEN @ - 1 ELSE @]
                /\ hist' = [hist EXCEPT !.exit = "send_failed"]
           ELSE /\ worker' = [worker EXCEPT !.pc = "update"]
                /\ chan' = [chan EXCEPT
                              !.query = IF tr = "Ok" THEN @ - 1 ELSE @,
                              !.queried = Append(@, worker.protocol.busy_state)]
                /\ UNCHANGED hist
    /\ UNCHANGED <<fvars, config, app, sock>>

\* The query step that takes a query off the channel and sends no answer.
WorkerQueryNoAnswer ==
    /\ worker.pc = "query"
    /\ LET tr == TryRecvUnit(chan.query, HandleGone)
       IN  IF tr = "Ok"
           THEN /\ worker' = [worker EXCEPT !.pc = "update"]
                /\ chan' = [chan EXCEPT !.query = @ - 1]
                /\ UNCHANGED hist
           ELSE IF tr = "Disconnected"
           THEN /\ worker' = [worker EXCEPT !.pc = "finished"]
                /\ hist' = [hist EXCEPT !.exit = "control_dropped"]
                /\ UNCHANGED chan
           ELSE /\ worker' = [worker EXCEPT !.pc = "update"]
                /\ UNCHANGED <<chan, hist>>
    /\ UNCHANGED <<fvars, config, app, sock>>

WorkerQuery ==
    /\ worker.pc = "query"
    /\ LET tr == TryRecvUnit(chan.query, HandleGone)
       IN  IF tr = "Ok"
           THEN IF HandleGone
                THEN /\ worker' = [worker EXCEPT !.pc = "finished"]
                     /\ chan' = [chan EXCEPT !.query = @ - 1]
                     /\ hist' = [hist EXCEPT !.exit = "send_failed"]
                ELSE /\ worker' = [worker EXCEPT !.pc = "update"]
                     /\ chan' = [chan EXCEPT
                                   !.query = @ - 1,
                                   !.queried = Append(@, worker.protocol.busy_state)]
                     /\ UNCHANGED hist
           ELSE IF tr = "Disconnected"
           THEN /\ worker' = [worker EXCEPT !.pc = "finished"]
                /\ hist' = [hist EXCEPT !.exit = "control_dropped"]
                /\ UNCHANGED chan
           ELSE /\ worker' = [worker EXCEPT !.pc = "update"]
                /\ UNCHANGED <<chan, hist>>
    /\ UNCHANGED <<fvars, config, app, sock>>

\* One turn of the update loop with the received state ignored.
WorkerUpdateIgnoresState ==
    /\ worker.pc = "update"
    /\ LET tr == TryRecv(chan.update, HandleGone)
       IN  IF tr.r = "Ok"
           THEN /\ worker' = worker
                /\ chan' = [chan EXCEPT !.update = Tail(@)]
                /\ UNCHANGED hist
           ELSE IF tr.r = "Disconnected"
           THEN /\ worker' = [worker EXCEPT !.pc = "finished"]
                /\ hist' = [hist EXCEPT !.exit = "control_dropped"]
                /\ UNCHANGED chan
           ELSE /\ worker' = [worker EXCEPT !.pc = "read"]
                /\ UNCHANGED <<chan, hist>>
    /\ UNCHANGED <<fvars, config, app, sock>>

\* One turn of the busy-state update loop (lines 296-305):
\* protocol.update_busy_state(busy_state) for a received state.
WorkerUpdate ==
    /\ worker.pc = "update"
    /\ LET tr == TryRecv(chan.update, HandleGone)
       IN  IF tr.r = "Ok"
           THEN /\ worker' = [worker EXCEPT !.protocol.busy_state = tr.v[1]]
                /\ chan' = [chan EXCEPT !.update = Tail(@)]
                /\ UNCHANGED hist
           ELSE IF tr.r = "Disconnected"
           THEN /\ worker' = [worker EXCEPT !.pc = "finished"]
                /\ hist' = [hist EXCEPT !.exit = "control_dropped"]
                /\ UNCHANGED chan
           ELSE /\ worker' = [worker EXCEPT !.pc = "read"]
                /\ UNCHANGED <<chan, hist>>
    /\ UNCHANGED <<fvars, config, app, sock>>

Min(a, b) == IF a < b THEN a ELSE b

\* How many bytes one read may deliver when `available` bytes are unread:
\* everything that fits the buffer of BUFFER_SIZE bytes, what fits the
\* receive buffer of HEADER_SIZE bytes (lines 246-250), or a single byte.
ReadSizes(available) ==
    {Min(available, BUFFER_SIZE), Min(available, HEADER_SIZE), 1}

\* How many bytes one write of `length` bytes may accept: all of them, or
\* what fits the send buffer of HEADER_SIZE bytes (lines 241-245).
WriteSizes(length) == {length, Min(length, HEADER_SIZE)}

\* tcp_stream_read.read(&mut incoming_buffer) returned Ok(n), n > 0
\* (lines 309-315): a non-empty run of the unread bytes.
WorkerReadData ==
    /\ worker.pc = "read"
    /\ sock.inbound # <<>>
    /\ ~sock.shutdown
    /\ \E n \in ReadSizes(Len(sock.inbound)) :
          /\ worker' = [worker EXCEPT !.pc = "drain",
                                      !.buffer = SubSeq(sock.inbound, 1, n)]
          /\ sock' = [sock EXCEPT
                        !.inbound = SubSeq(@, n + 1, Len(sock.inbound))]
    /\ UNCHANGED <<fvars, config, chan, app, hist>>

\* A read of Ok(0) taken as the end of the stream: the thread ends.
WorkerReadZeroEndsThread ==
    /\ worker.pc = "read"
    /\ \/ sock.shutdown
       \/ sock.peerClosed /\ sock.inbound = <<>>
    /\ worker' = [worker EXCEPT !.pc = "finished"]
    /\ hist' = [hist EXCEPT !.readZero = TRUE]
    /\ UNCHANGED <<fvars, config, chan, app, sock>>

\* The read returned Ok(0) (lines 311-312): the peer closed and everything
\* was read, or the socket was shut down.
WorkerReadZero ==
    /\ worker.pc = "read"
    /\ \/ sock.shutdown
       \/ sock.peerClosed /\ sock.inbound = <<>>
    /\ worker' = [worker EXCEPT !.pc = "loop"]
    /\ hist' = [hist EXCEPT !.readZero = TRUE]
    /\ UNCHANGED <<fvars, config, chan, app, sock>>

\* The read returned Err(WouldBlock) (lines 356-357): no data ready.
WorkerReadWouldBlock ==
    /\ worker.pc = "read"
    /\ sock.inbound = <<>>
    /\ ~sock.peerClosed
    /\ ~sock.shutdown
    /\ worker' = [worker EXCEPT !.pc = "loop"]
    /\ UNCHANGED <<fvars, config, chan, app, sock, hist>>

\* A read error that ends the thread after the report.
WorkerReadErrorEndsThread ==
    /\ worker.pc = "read"
    /\ hist.socketEvents < MaxSocketEvents
    /\ LET item == InternalError("ReadError", 0, <<>>)
       IN  /\ SendMessage(item, worker, "finished")
           /\ hist' = [hist EXCEPT !.socketEvents = @ + 1,
                                   !.posted = @ \o Posted(item),
                                   !.exit = "send_failed"]
    /\ UNCHANGED <<fvars, config, app, sock>>

\* The read returned another error (lines 358-363).
WorkerReadError ==
    /\ worker.pc = "read"
    /\ hist.socketEvents < MaxSocketEvents
    /\ LET item == InternalError("ReadError", 0, <<>>)
       IN  /\ SendMessage(item, worker, "loop")
           /\ hist' = [hist EXCEPT !.socketEvents = @ + 1,
                                   !.posted = @ \o Posted(item),
                                   !.exit = SendFailure(@)]
    /\ UNCHANGED <<fvars, config, app, sock>>

\* How one framed message was handled, for the history.
Handled(m, busy, outcome, reply, written) ==
    [msg |-> m, busy |-> busy, outcome |-> outcome, reply |-> reply,
     written |-> written,
     updatesApplied |-> Len(hist.updates) - Len(chan.update),
     updatesSent |-> Len(hist.updates)]

\* One turn of the drain loop (lines 316-352): process_new_buffer on the
\* slice, then the message it returned is answered on the immediate route or
\* posted.  A panic of process_new_buffer ends the thread.  (r, w, m, busy,
\* route, message, cerr and werr are the values of the code's locals.)
WorkerDrain ==
    /\ worker.pc = "drain"
    /\ \E r \in {ProcessNewBuffer(worker.protocol, worker.buffer)} :
       \E w \in {[worker EXCEPT !.protocol = r.pb, !.buffer = <<>>]} :
           IF r.panic
           THEN /\ worker' = [w EXCEPT !.pc = "panicked"]
                /\ hist' = [hist EXCEPT !.exit = "panic"]
                /\ UNCHANGED <<chan, sock>>
           ELSE IF r.ret = <<>>
           THEN /\ worker' = [w EXCEPT !.pc = "loop"]
                /\ UNCHANGED <<chan, sock, hist>>
           ELSE \E m \in {r.ret[1]}, busy \in {r.pb.busy_state} :
                \E route \in {MessageIsAnsweredViaImmediateRoute(
                                  m.command, m.payload, busy)} :
                    IF route = <<>>
                    THEN /\ SendMessage(OkItem(m), w, "drain")
                         /\ hist' = [hist EXCEPT
                               !.posted = @ \o Posted(OkItem(m)),
                               !.exit = SendFailure(@),
                               !.handled = Append(@,
                                   Handled(m, busy, "delivered", <<>>, <<>>))]
                         /\ UNCHANGED sock
                    ELSE \E message \in {ConstructMessage(route[1].command,
                                                            route[1].payload)},
                            cerr \in {InternalError(
                                         "ImmediateMessageConstructError",
                                         route[1].command, route[1].payload)},
                            werr \in {InternalError("WriteError", 0, <<>>)} :
                             IF message = <<>>
                             THEN /\ SendMessage(cerr, w, "drain")
                                  /\ hist' = [hist EXCEPT
                                        !.posted = @ \o Posted(cerr),
                                        !.exit = SendFailure(@),
                                        !.handled = Append(@,
                                            Handled(m, busy,
                                                "ImmediateMessageConstructError",
                                                route, <<>>))]
                                  /\ UNCHANGED sock
                             ELSE \/ \E n \in WriteSizes(Len(message[1])) :
                                       /\ worker' = [w EXCEPT !.pc = "drain"]
                                       /\ sock' = [sock EXCEPT !.wire = Append(@,
                                             [by |-> "worker",
                                              id |-> Len(hist.handled) + 1,
                                              bytes |-> SubSeq(message[1], 1, n)])]
                                       /\ hist' = [hist EXCEPT
                                             !.handled = Append(@,
                                                 Handled(m, busy, "written", route,
                                                     SubSeq(message[1], 1, n)))]
                                       /\ UNCHANGED chan
                                  \/ /\ SendMessage(werr, w, "drain")
                                     /\ hist' = [hist EXCEPT
                                           !.posted = @ \o Posted(werr),
                                           !.exit = SendFailure(@),
                                           !.handled = Append(@,
                                               Handled(m, busy, "WriteError",
                                                   route, <<>>))]
                                     /\ UNCHANGED sock
    /\ UNCHANGED <<fvars, config, app>>

\* TcpIpc::update_busy_state (lines 392-397).
UpdateBusyState ==
    /\ app.handle = "alive"
    /\ app.pc = "idle"
    /\ hist.calls < MaxAppCalls
    /\ \E new_busy_state \in BusyStates :
          IF WorkerGone
          THEN /\ hist' = [hist EXCEPT !.calls = @ + 1]
               /\ UNCHANGED chan
          ELSE /\ chan' = [chan EXCEPT !.update = Append(@, new_busy_state)]
               /\ hist' = [hist EXCEPT !.calls = @ + 1,
                                       !.updates = Append(@, new_busy_state)]
    /\ UNCHANGED <<fvars, config, worker, app, sock>>

\* What one get_busy_state call returned, for the history: the result, and
\* how many updates the application had submitted before the call.
QueryResult(r, state) ==
    [r |-> r, state |-> state, updatesSent |-> Len(hist.updates)]

\* TcpIpc::get_busy_state, the send on the query channel (line 404).  A
\* call that follows an earlier get_busy_state call is a retry; up to
\* MaxQueryRetries of them are made on top of the MaxAppCalls calls.
GetBusyStateSend ==
    /\ app.handle = "alive"
    /\ app.pc = "idle"
    /\ hist.calls < MaxAppCalls + Min(Len(hist.queries), MaxQueryRetries)
    /\ IF WorkerGone
       THEN /\ hist' = [hist EXCEPT
                  !.calls = @ + 1,
                  !.queries = Append(@, QueryResult("Disconnected", <<>>))]
            /\ UNCHANGED <<chan, app>>
       ELSE /\ hist' = [hist EXCEPT !.calls = @ + 1]
            /\ chan' = [chan EXCEPT !.query = @ + 1]
            /\ app' = [app EXCEPT !.pc = "get_busy_state"]
    /\ UNCHANGED <<fvars, config, worker, sock>>

\* TcpIpc::get_busy_state, the blocking recv of the answer (lines 405-408).
GetBusyStateRecv ==
    /\ app.pc = "get_busy_state"
    /\ \/ /\ chan.queried # <<>>
          /\ chan' = [chan EXCEPT !.queried = Tail(@)]
          /\ hist' = [hist EXCEPT !.queries =
                        Append(@, QueryResult("Ok", <<Head(chan.queried)>>))]
       \/ /\ chan.queried = <<>>
          /\ WorkerGone
          /\ UNCHANGED chan
          /\ hist' = [hist EXCEPT !.queries =
                        Append(@, QueryResult("Disconnected", <<>>))]
    /\ app' = [app EXCEPT !.pc = "idle"]
    /\ UNCHANGED <<fvars, config, worker, sock>>

\* What one get_message call returned, for the history: the kind of the
\* result, whether the read thread had ended and how many items were queued
\* when the call was made.
GetOutcome(r) ==
    <<[r |-> r, gone |-> WorkerGone, queued |-> Len(chan.message)]>>

\* TcpIpc::get_message (lines 418-431).
GetMessage ==
    /\ app.handle = "alive"
    /\ app.pc = "idle"
    /\ hist.calls < MaxAppCalls
    /\ LET tr == TryRecv(chan.message, WorkerGone)
       IN  IF tr.r = "Ok"
           THEN /\ chan' = [chan EXCEPT !.message = Tail(@)]
                /\ hist' = [hist EXCEPT
                      !.calls = @ + 1,
                      !.returned = Append(@, GetMessageResult(tr.v[1])),
                      !.prevGet = hist.lastGet,
                      !.lastGet = GetOutcome(IF tr.v[1].variant = "Ok"
                                             THEN "Some" ELSE "Err")]
           ELSE /\ hist' = [hist EXCEPT
                      !.calls = @ + 1,
                      !.prevGet = hist.lastGet,
                      !.lastGet = GetOutcome(IF tr.r = "Disconnected"
                                             THEN "Disconnected" ELSE "None")]
                /\ UNCHANGED chan
    /\ UNCHANGED <<fvars, config, worker, app, sock>>

\* TcpIpc::shutdown, the send on the shutdown channel (lines 506-515).
ShutdownSend ==
    /\ app.handle = "alive"
    /\ app.pc = "idle"
    /\ hist.calls < MaxAppCalls
    /\ IF WorkerGone
       THEN /\ app' = [app EXCEPT !.handle = "shutting",
                                  !.shutdown_requested_succesfully = FALSE]
            /\ hist' = [hist EXCEPT !.calls = @ + 1,
                                    !.shutdownSteps = <<"send_failed">>]
            /\ UNCHANGED chan
       ELSE /\ app' = [app EXCEPT !.handle = "shutting",
                                  !.shutdown_requested_succesfully = TRUE]
            /\ hist' = [hist EXCEPT !.calls = @ + 1,
                                    !.shutdownSteps = <<"sent">>]
            /\ chan' = [chan EXCEPT !.shutdown = @ + 1]
    /\ UNCHANGED <<fvars, config, worker, sock>>

\* The value shutdown() returns (lines 530-537), with || written as &&.
ShutdownResultBothFailed(shutdown_requested_succesfully, shutdown_succesfully) ==
    IF ~shutdown_requested_succesfully /\ ~shutdown_succesfully
    THEN [r |-> "ShutdownError",
          shutdown_succesfully |-> shutdown_succesfully,
          shutdown_requested_succesfully |-> shutdown_requested_succesfully]
    ELSE [r |-> "Ok"]

\* The value shutdown() returns (lines 530-537).
ShutdownResult(shutdown_requested_succesfully, shutdown_succesfully) ==
    IF ~shutdown_requested_succesfully \/ ~shutdown_succesfully
    THEN [r |-> "ShutdownError",
          shutdown_succesfully |-> shutdown_succesfully,
          shutdown_requested_succesfully |-> shutdown_requested_succesfully]
    ELSE [r |-> "Ok"]

\* What stream.shutdown(Shutdown::Both) may give: it succeeds on a
\* connected socket, and may fail once the peer has closed the connection.
SocketShutdownOutcomes == IF sock.peerClosed THEN {TRUE, FALSE} ELSE {TRUE}

\* TcpIpc::shutdown, the socket shutdown and the end of the call, which
\* drops the consumed handle (lines 517-538).
ShutdownSocket ==
    /\ app.handle = "shutting"
    /\ \E shutdown_succesfully \in SocketShutdownOutcomes :
          /\ app' = [app EXCEPT
                !.handle = "gone",
                !.shutdown_result =
                    <<ShutdownResult(app.shutdown_requested_succesfully,
                                     shutdown_succesfully)>>]
          /\ sock' = [sock EXCEPT !.shutdown = @ \/ shutdown_succesfully]
          /\ hist' = [hist EXCEPT !.shutdownSteps = Append(@,
                IF shutdown_succesfully THEN "socket_ok" ELSE "socket_failed")]
    /\ UNCHANGED <<fvars, config, worker, chan>>

\* The application drops the handle without calling shutdown.
DropHandle ==
    /\ app.handle = "alive"
    /\ app.pc = "idle"
    /\ hist.calls < MaxAppCalls
    /\ app' = [app EXCEPT !.handle = "gone"]
    /\ hist' = [hist EXCEPT !.calls = @ + 1]
    /\ UNCHANGED <<fvars, config, worker, chan, sock>>

\* The record of an await_message or clear_message_queue call that begins.
BeginOp(name) ==
    <<[name |-> name, queued |-> Len(chan.message), r |-> "",
       removed |-> <<>>, ret |-> <<>>, left |-> 0]>>

\* TcpIpc::await_message is called (line 467: the clock is started).
AwaitMessageBegin ==
    /\ app.handle = "alive"
    /\ app.pc = "idle"
    /\ hist.calls < MaxAppCalls
    /\ app' = [app EXCEPT !.pc = "await_message"]
    /\ hist' = [hist EXCEPT !.calls = @ + 1, !.op = BeginOp("await_message")]
    /\ UNCHANGED <<fvars, config, worker, chan, sock>>

\* One turn of the loop of await_message (lines 468-478) with the wait time
\* not yet elapsed: get_message, return what it gave or sleep and go on.
AwaitMessagePoll ==
    /\ app.pc = "await_message"
    /\ \E tr \in {TryRecv(chan.message, WorkerGone)} :
          IF tr.r = "Ok"
          THEN /\ chan' = [chan EXCEPT !.message = Tail(@)]
               /\ app' = [app EXCEPT !.pc = "idle"]
               /\ hist' = [hist EXCEPT
                     !.returned = Append(@, GetMessageResult(tr.v[1])),
                     !.op[1].removed = Append(@, tr.v[1]),
                     !.op[1].ret = <<GetMessageResult(tr.v[1])>>,
                     !.op[1].left = Len(chan.message) - 1,
                     !.op[1].r = IF tr.v[1].variant = "Ok"
                                 THEN "Some" ELSE "Err"]
          ELSE IF tr.r = "Disconnected"
          THEN /\ app' = [app EXCEPT !.pc = "idle"]
               /\ hist' = [hist EXCEPT !.op[1].r = "Disconnected"]
               /\ UNCHANGED chan
          ELSE UNCHANGED <<app, hist, chan>>
    /\ UNCHANGED <<fvars, config, worker, sock>>

\* The loop condition of await_message finds the wait time elapsed (line
\* 468, which is tested before the first get_message too): Ok(None).
AwaitMessageTimeout ==
    /\ app.pc = "await_message"
    /\ app' = [app EXCEPT !.pc = "idle"]
    /\ hist' = [hist EXCEPT !.op[1].r = "None",
                            !.op[1].left = Len(chan.message)]
    /\ UNCHANGED <<fvars, config, worker, chan, sock>>

\* TcpIpc::clear_message_queue is called (lines 439-445, the sleep
\* included).
ClearMessageQueueBegin ==
    /\ app.handle = "alive"
    /\ app.pc = "idle"
    /\ hist.calls < MaxAppCalls
    /\ app' = [app EXCEPT !.pc = "clear_message_queue"]
    /\ hist' = [hist EXCEPT !.calls = @ + 1,
                            !.op = BeginOp("clear_message_queue")]
    /\ UNCHANGED <<fvars, config, worker, chan, sock>>

\* clear_message_queue that discards error reports as it discards messages.
ClearMessageQueueGetSkipsErrors ==
    /\ app.pc = "clear_message_queue"
    /\ \E tr \in {TryRecv(chan.message, WorkerGone)} :
          IF tr.r = "Ok"
          THEN /\ chan' = [chan EXCEPT !.message = Tail(@)]
               /\ hist' = [hist EXCEPT !.op[1].removed = Append(@, tr.v[1])]
               /\ UNCHANGED app
          ELSE /\ app' = [app EXCEPT !.pc = "idle"]
               /\ hist' = [hist EXCEPT !.op[1].r =
                     IF tr.r = "Disconnected" THEN "Disconnected" ELSE "Ok"]
               /\ UNCHANGED chan
    /\ UNCHANGED <<fvars, config, worker, sock>>

\* One turn of the loop of clear_message_queue (lines 446-452): a message
\* is dropped, Ok(None) ends the call with Ok(()), an error is returned.
ClearMessageQueueGet ==
    /\ app.pc = "clear_message_queue"
    /\ \E tr \in {TryRecv(chan.message, WorkerGone)} :
          IF tr.r = "Ok" /\ tr.v[1].variant = "Ok"
          THEN /\ chan' = [chan EXCEPT !.message = Tail(@)]
               /\ hist' = [hist EXCEPT !.op[1].removed = Append(@, tr.v[1])]
               /\ UNCHANGED app
          ELSE IF tr.r = "Ok"
          THEN /\ chan' = [chan EXCEPT !.message = Tail(@)]
               /\ app' = [app EXCEPT !.pc = "idle"]
               /\ hist' = [hist EXCEPT
                     !.op[1].removed = Append(@, tr.v[1]),
                     !.op[1].ret = <<GetMessageResult(tr.v[1])>>,
                     !.op[1].left = Len(chan.message) - 1,
                     !.op[1].r = "Err"]
          ELSE /\ app' = [app EXCEPT !.pc = "idle"]
               /\ hist' = [hist EXCEPT !.op[1].r =
                     IF tr.r = "Disconnected" THEN "Disconnected" ELSE "Ok"]
               /\ UNCHANGED chan
    /\ UNCHANGED <<fvars, config, worker, sock>>

\* What the application sends with write_message: a message with a payload,
\* and a command whose code does not fit the 3 command bytes of the header,
\* which construct_message refuses.
WriteInputs ==
    {[command |-> Start, payload |-> <<97>>],
     [command |-> Unencodable, payload |-> <<>>]}

\* write_message that holds back the last byte of the message and returns
\* Ok(()) all the same.
WriteMessageBeginShort ==
    /\ app.handle = "alive"
    /\ app.pc = "idle"
    /\ hist.calls < MaxAppCalls
    /\ \E m \in WriteInputs :
          \E message \in {ConstructMessage(m.command, m.payload)} :
             /\ app' = [app EXCEPT
                   !.pc = IF message = <<>> THEN "idle" ELSE "write_all",
                   !.pending = IF message = <<>> THEN <<>>
                               ELSE SubSeq(message[1], 1, Len(message[1]) - 1)]
             /\ hist' = [hist EXCEPT
                   !.calls = @ + 1,
                   !.writes = Append(@,
                       [msg |-> m,
                        r |-> IF message = <<>>
                              THEN "MessageConstructionFailed" ELSE ""])]
    /\ UNCHANGED <<fvars, config, worker, chan, sock>>

\* TcpIpc::write_message up to the call of write_all (lines 494-498):
\* construct_message, and MessageConstructionFailed when it gives None.
WriteMessageBegin ==
    /\ app.handle = "alive"
    /\ app.pc = "idle"
    /\ hist.calls < MaxAppCalls
    /\ \E m \in WriteInputs :
          \E message \in {ConstructMessage(m.command, m.payload)} :
             /\ app' = [app EXCEPT
                   !.pc = IF message = <<>> THEN "idle" ELSE "write_all",
                   !.pending = IF message = <<>> THEN <<>> ELSE message[1]]
             /\ hist' = [hist EXCEPT
                   !.calls = @ + 1,
                   !.writes = Append(@,
                       [msg |-> m,
                        r |-> IF message = <<>>
                              THEN "MessageConstructionFailed" ELSE ""])]
    /\ UNCHANGED <<fvars, config, worker, chan, sock>>

\* One write of stream.write_all (line 498): the socket accepts some or all
\* of the bytes left, and write_all returns Ok(()) once none is left
\* (write_message then returns Ok(())).
WriteAllWrite ==
    /\ app.pc = "write_all"
    /\ \E n \in WriteSizes(Len(app.pending)) :
          /\ sock' = [sock EXCEPT !.wire = Append(@,
                [by |-> "app", id |-> Len(hist.writes),
                 bytes |-> SubSeq(app.pending, 1, n)])]
          /\ app' = [app EXCEPT
                !.pending = SubSeq(@, n + 1, Len(app.pending)),
                !.pc = IF n = Len(app.pending) THEN "idle" ELSE "write_all"]
          /\ hist' = [hist EXCEPT !.writes[Len(hist.writes)].r =
                IF n = Len(app.pending) THEN "Ok" ELSE @]
    /\ UNCHANGED <<fvars, config, worker, chan>>

\* One write of stream.write_all fails (WouldBlock on the non-blocking
\* socket included): write_message returns MessageSendFailed.
WriteAllError ==
    /\ app.pc = "write_all"
    /\ app' = [app EXCEPT !.pending = <<>>, !.pc = "idle"]
    /\ hist' = [hist EXCEPT !.writes[Len(hist.writes)].r = "MessageSendFailed"]
    /\ UNCHANGED <<fvars, config, worker, chan, sock>>

\* The peer writes one constructed message.
PeerSend ==
    /\ hist.socketEvents < MaxSocketEvents
    /\ ~sock.peerClosed
    /\ \E m \in PeerMessages :
          /\ sock' = [sock EXCEPT !.inbound =
                        @ \o ConstructMessage(m.command, m.payload)[1]]
          /\ hist' = [hist EXCEPT !.socketEvents = @ + 1, !.peerSent = Append(@,
                        [msg |-> m, updatesSent |-> Len(hist.updates)])]
    /\ UNCHANGED <<fvars, config, worker, chan, app>>

\* The peer writes a header that parse_header rejects: payload length 0
\* and a command code no command has.
PeerSendBadHeader ==
    /\ hist.socketEvents < MaxSocketEvents
    /\ ~sock.peerClosed
    /\ ParseHeader(BigEndian3(0) \o BigEndian3(Start + QueryIsBusy)).ok = FALSE
    /\ sock' = [sock EXCEPT !.inbound =
                  @ \o BigEndian3(0) \o BigEndian3(Start + QueryIsBusy)]
    /\ hist' = [hist EXCEPT !.socketEvents = @ + 1]
    /\ UNCHANGED <<fvars, config, worker, chan, app>>

\* The peer closes the connection.
PeerClose ==
    /\ hist.socketEvents < MaxSocketEvents
    /\ ~sock.peerClosed
    /\ sock' = [sock EXCEPT !.peerClosed = TRUE]
    /\ hist' = [hist EXCEPT !.socketEvents = @ + 1]
    /\ UNCHANGED <<fvars, config, worker, chan, app>>

Init ==
    /\ msgs = <<>>
    /\ fA = NewFramer
    /\ fB = NewFramer
    /\ \E check_count \in 0..MaxCheckCount : InitEndpoint(check_count)

Next ==
    \/ WorkerLoop
    \/ WorkerQuery
    \/ WorkerUpdate
    \/ WorkerReadData
    \/ WorkerReadZero
    \/ WorkerReadWouldBlock
    \/ WorkerReadError
    \/ WorkerDrain
    \/ UpdateBusyState
    \/ GetBusyStateSend
    \/ GetBusyStateRecv
    \/ GetMessage
    \/ ShutdownSend
    \/ ShutdownSocket
    \/ DropHandle
    \/ PeerSend
    \/ PeerClose

Spec == Init /\ [][Next]_vars

\* The steps of the read thread that need nothing from outside: the thread
\* is a running thread, so it keeps taking them while it has not ended.
WorkerStep ==
    \/ WorkerLoop
    \/ WorkerQuery
    \/ WorkerUpdate
    \/ WorkerReadData
    \/ WorkerReadZero
    \/ WorkerReadWouldBlock
    \/ WorkerDrain

\* The peer writes a message, in the runs checked for progress.
PeerSendFair ==
    /\ hist.socketEvents < MaxFairSocketEvents
    /\ PeerSend

\* The endpoint under a read thread that keeps running: the application
\* uses the control plane and ends the endpoint, the peer sends data.
NextFair ==
    \/ WorkerStep
    \/ UpdateBusyState
    \/ GetBusyStateSend
    \/ GetBusyStateRecv
    \/ ShutdownSend
    \/ ShutdownSocket
    \/ DropHandle
    \/ PeerSendFair

SpecFair == Init /\ [][NextFair]_vars /\ WF_vars(WorkerStep)

\* The same, with an application thread that is scheduled too: the blocking
\* recv of get_busy_state returns once an answer is queued or the read
\* thread is gone.
SpecFairQuery == SpecFair /\ WF_vars(GetBusyStateRecv)

\* The endpoint while the application writes messages: the read thread
\* answers the peer on the same connection.
NextWrite ==
    \/ WorkerStep
    \/ UpdateBusyState
    \/ WriteMessageBegin
    \/ WriteAllWrite
    \/ WriteAllError
    \/ PeerSendFair
    \/ PeerClose

SpecWrite == Init /\ [][NextWrite]_vars

\* The endpoint with a peer that may send a header that does not parse.
NextFault ==
    \/ WorkerStep
    \/ GetMessage
    \/ PeerSend
    \/ PeerSendBadHeader
    \/ PeerClose

SpecFault == Init /\ [][NextFault]_vars

\* The endpoint while the application waits for messages or clears the
\* queue of received messages.
NextQueue ==
    \/ WorkerStep
    \/ WorkerReadError
    \/ AwaitMessageBegin
    \/ AwaitMessagePoll
    \/ AwaitMessageTimeout
    \/ ClearMessageQueueBegin
    \/ ClearMessageQueueGet
    \/ PeerSend
    \/ PeerClose

SpecQueue == Init /\ [][NextQueue]_vars

(***************************************************************************)
(* Claims about the frame buffer.                                          *)
(***************************************************************************)
\* The bytes fed to frame buffer f so far.
Fed(f) == SubSeq(Stream, 1, f.fed)

\* f was fed the whole stream and its drain loop ended with None.
Finished(f) == ~f.panicked /\ f.fed = Len(Stream) /\ f.lastRet = <<>>

\* C1 (framer completeness): feeding any chunking of a stream of constructed
\* messages m1..mk, draining after each feed, never panics, never emits
\* anything but a prefix of m1..mk, and has emitted exactly m1..mk once the
\* whole stream is fed and drained.
C1_FramerCompleteness ==
    /\ ~fA.panicked
    /\ Len(fA.emitted) <= Len(msgs)
    /\ fA.emitted = SubSeq(msgs, 1, Len(fA.emitted))
    /\ Finished(fA) => fA.emitted = msgs

\* C2 (round trip): a constructed message fed in a single call into a fresh
\* frame buffer is emitted by that call, equal to (c, p); the buffer is left
\* with no pending header, no assembled payload and no staged bytes, and the
\* draining call that follows emits nothing.
C2_RoundTrip ==
    (fA.first = Len(Wire(<<msgs[1]>>)) /\ fA.fed = fA.first
        /\ fA.calls \in {1, 2}) =>
        /\ ~fA.panicked
        /\ fA.emitted = <<msgs[1]>>
        /\ fA.lastRet = (IF fA.calls = 1 THEN <<msgs[1]>> ELSE <<>>)
        /\ fA.pb.current_command = <<>>
        /\ fA.pb.current_message = <<>>
        /\ fA.pb.incoming_buffer_vec = <<>>

\* A message with a payload was fed whole, emitted, and the drain call made.
C2_Witness ==
    /\ fA.first = Len(Wire(<<msgs[1]>>))
    /\ fA.fed = fA.first
    /\ fA.calls = 2
    /\ msgs[1].payload # <<>>
    /\ fA.emitted = <<msgs[1]>>

\* C3 (framer purity): two frame buffers fed the same bytes in different
\* chunkings end with the same emitted messages and the same state.
C3_FramerPurity ==
    ((Finished(fA) \/ fA.panicked) /\ (Finished(fB) \/ fB.panicked)) =>
        /\ fA.emitted = fB.emitted
        /\ fA.panicked = fB.panicked
        /\ fA.pb = fB.pb

\* C4 (at most one emission per call): a call returns at most one message,
\* and after a call that returned one the staged bytes are exactly the bytes
\* fed behind the messages emitted so far, in order.
C4_AtMostOnePerCall ==
    /\ Len(fA.lastRet) <= 1
    /\ (~fA.panicked /\ fA.lastRet # <<>>) =>
           fA.pb.incoming_buffer_vec =
               SubSeq(Stream, Len(Wire(fA.emitted)) + 1, fA.fed)

\* One call was fed two complete messages and returned the first only.
C4_Witness ==
    /\ Len(msgs) = 2
    /\ fA.calls = 1
    /\ fA.first = Len(Stream)
    /\ fA.lastRet = <<msgs[1]>>
    /\ fA.pb.incoming_buffer_vec = Wire(<<msgs[2]>>)

\* C5 (invariants I1 and I2): a pending header with payload length n has an
\* assembled payload shorter than n, and with no header pending the
\* assembled payload is empty.
C5_I1_I2 ==
    /\ fA.pb.current_command # <<>> =>
           Len(fA.pb.current_message) < fA.pb.current_target
    /\ fA.pb.current_command = <<>> => fA.pb.current_message = <<>>

\* A payload of length n > 0 was completed and emitted by the call, which
\* cleared the pending header and the assembled payload.
C5_Witness ==
    /\ ~fA.panicked
    /\ fA.lastRet # <<>>
    /\ fA.lastRet[1].payload # <<>>
    /\ fA.pb.current_command = <<>>
    /\ fA.pb.current_message = <<>>

\* C6 (invariant I3, as claimed): after every call, with no header pending,
\* fewer than HEADER_SIZE bytes are staged.
C6_I3_AfterEveryCall ==
    (~fA.panicked /\ fA.pb.current_command = <<>>) =>
        Len(fA.pb.incoming_buffer_vec) < HEADER_SIZE

\* C6 (invariant I3, amended): after every call that returned None, with no
\* header pending, fewer than HEADER_SIZE bytes are staged.
C6_I3_AfterNone ==
    (~fA.panicked /\ fA.lastRet = <<>> /\ fA.pb.current_command = <<>>) =>
        Len(fA.pb.incoming_buffer_vec) < HEADER_SIZE

\* A call returned None and left part of a header staged.
C6_Witness ==
    /\ ~fA.panicked
    /\ fA.calls > 0
    /\ fA.lastRet = <<>>
    /\ fA.pb.current_command = <<>>
    /\ fA.pb.incoming_buffer_vec # <<>>
    /\ Len(fA.emitted) = 1

\* C7 (invariant I5, byte conservation): after every call that returned, the
\* wire bytes of the messages emitted so far, then the assembled payload,
\* then the staged bytes, are the bytes fed so far.
C7_I5_ByteConservation ==
    ~fA.panicked =>
        Wire(fA.emitted) \o fA.pb.current_message \o fA.pb.incoming_buffer_vec
            = Fed(fA)

\* A message was emitted while bytes of the next one stay staged.
C7_Witness ==
    /\ ~fA.panicked
    /\ fA.emitted # <<>>
    /\ fA.pb.incoming_buffer_vec # <<>>
    /\ fA.fed < Len(Stream)

(***************************************************************************)
(* Claims about the endpoint.                                              *)
(***************************************************************************)
RECURSIVE IsSubsequence(_, _)
\* a is b with some elements left out.
IsSubsequence(a, b) ==
    IF a = <<>> THEN TRUE
    ELSE IF b = <<>> THEN FALSE
    ELSE IF Head(a) = Head(b)
         THEN IsSubsequence(Tail(a), Tail(b))
         ELSE IsSubsequence(a, Tail(b))

RECURSIVE OkMessages(_)
\* The framed messages among the items of a sequence, in order.
OkMessages(items) ==
    IF items = <<>> THEN <<>>
    ELSE IF Head(items).variant = "Ok"
         THEN <<[command |-> Head(items).command,
                 payload |-> Head(items).payload]>> \o OkMessages(Tail(items))
         ELSE OkMessages(Tail(items))

PeerSentMessages == [k \in DOMAIN hist.peerSent |-> hist.peerSent[k].msg]

\* C8 (ordering and exactly-once delivery): what get_message has returned
\* so far is, item by item and in order, what the read thread posted first,
\* every error as the public variant of the same name; the items posted and
\* not yet returned are those waiting in the channel; and the messages
\* returned are messages the peer sent, in the order it sent them.
C8_OrderedExactlyOnce ==
    /\ Len(hist.returned) <= Len(hist.posted)
    /\ \A i \in DOMAIN hist.returned :
          /\ hist.returned[i].variant = hist.posted[i].variant
          /\ hist.returned[i].command = hist.posted[i].command
          /\ hist.returned[i].payload = hist.posted[i].payload
          /\ hist.returned[i].enum =
                (IF hist.posted[i].variant = "Ok"
                 THEN "Message" ELSE "ReadThreadErrors")
    /\ chan.message =
          SubSeq(hist.posted, Len(hist.returned) + 1, Len(hist.posted))
    /\ IsSubsequence(OkMessages(hist.returned), PeerSentMessages)

\* get_message returned an error report and then a message, in the order
\* they were posted.
C8_Witness ==
    /\ Len(hist.returned) = 2
    /\ hist.returned[1].variant # "Ok"
    /\ hist.returned[2].variant = "Ok"

\* What construct_message gives for the reply the immediate route asks for.
ReplyBytes(h) ==
    ConstructMessage(h.reply[1].command, h.reply[1].payload)

\* C9 (immediate reply): every framed message for which the immediate route
\* gives a reply under the read thread's busy state is not delivered to the
\* application, and the complete bytes of the constructed reply are written
\* to the peer (a reply whose failure the read thread reported on the
\* message channel is not counted).
C9_ImmediateReply ==
    \A k \in DOMAIN hist.handled :
        LET h == hist.handled[k]
        IN  MessageIsAnsweredViaImmediateRoute(
                h.msg.command, h.msg.payload, h.busy) # <<>> =>
                /\ h.outcome # "delivered"
                /\ h.outcome = "written" => <<h.written>> = ReplyBytes(h)

\* The k-th framed message is the k-th message the peer sent; the peer sent
\* it after update_busy_state returned for a state under which the message
\* is answered immediately, and no update followed before it was framed.
SentAfterUpdate(k) ==
    LET h == hist.handled[k]
        p == hist.peerSent[k]
    IN  /\ h.msg = p.msg
        /\ p.updatesSent > 0
        /\ h.updatesSent = p.updatesSent
        /\ MessageIsAnsweredViaImmediateRoute(
               h.msg.command, h.msg.payload,
               hist.updates[p.updatesSent]) # <<>>

\* C10 (immediate-reply suppression after an update, as claimed): a command
\* the peer sent after update_busy_state(Working(x)) returned, answered
\* immediately under Working(x), is never delivered to the application.
C10_SuppressedAfterUpdate ==
    \A k \in DOMAIN hist.handled :
        SentAfterUpdate(k) => hist.handled[k].outcome # "delivered"

\* C10 (amended): such a command is handled on the immediate route, under
\* Working(x), when the read thread had taken the update off the update
\* channel before it framed the command.
C10_SuppressedOnceApplied ==
    \A k \in DOMAIN hist.handled :
        (SentAfterUpdate(k)
            /\ hist.handled[k].updatesApplied = hist.peerSent[k].updatesSent) =>
            /\ hist.handled[k].outcome # "delivered"
            /\ hist.handled[k].busy =
                   hist.updates[hist.peerSent[k].updatesSent]

\* The update was applied, the command came after it and was answered by the
\* read thread.
C10_Witness ==
    \E k \in DOMAIN hist.handled :
        /\ SentAfterUpdate(k)
        /\ hist.handled[k].updatesApplied = hist.peerSent[k].updatesSent
        /\ hist.handled[k].outcome = "written"

(***************************************************************************)
(* Claims about the control plane.                                         *)
(***************************************************************************)
\* C11 (update-then-query visibility): a get_busy_state call made after
\* update_busy_state(s) returned, on the same thread, returns s, the last
\* update submitted before the call.
C11_UpdateThenQuery ==
    \A k \in DOMAIN hist.queries :
        LET q == hist.queries[k]
        IN  (q.r = "Ok" /\ q.updatesSent > 0) =>
                q.state = <<hist.updates[q.updatesSent]>>

\* The number of updates the read thread has taken off the update channel.
UpdatesApplied == Len(hist.updates) - Len(chan.update)

\* The n-th update is the last one submitted and the read thread holds it.
Visible(n) ==
    /\ Len(hist.updates) = n
    /\ chan.update = <<>>
    /\ worker.protocol.busy_state = hist.updates[n]

\* C12 (eventual busy-state visibility): queued updates are applied in
\* submission order, so the read thread holds the last update it took off
\* the channel; after the n-th update, unless a later update follows or the
\* read thread ends, the read thread eventually holds that update with
\* nothing queued; and of two get_busy_state calls made after the same last
\* update, the second returns that update (one retry is enough).
C12_EventualVisibility ==
    /\ [](/\ chan.update = SubSeq(hist.updates, UpdatesApplied + 1,
                                   Len(hist.updates))
          /\ worker.protocol.busy_state =
                (IF UpdatesApplied = 0 THEN Idle
                 ELSE hist.updates[UpdatesApplied])
          /\ \A i, j \in DOMAIN hist.queries :
                (/\ i < j
                 /\ hist.queries[i].r = "Ok"
                 /\ hist.queries[j].r = "Ok"
                 /\ hist.queries[i].updatesSent > 0
                 /\ hist.queries[i].updatesSent = hist.queries[j].updatesSent)
                => hist.queries[j].state =
                       <<hist.updates[hist.queries[j].updatesSent]>>)
    /\ \A n \in 1..MaxAppCalls :
          (Len(hist.updates) = n) ~>
              (Len(hist.updates) > n \/ WorkerGone \/ Visible(n))

\* One update was submitted and the read thread holds it; a first query had
\* returned the stale state and the retry returned the update.
C12_Witness ==
    /\ Visible(1)
    /\ ~WorkerGone
    /\ Len(hist.queries) = 2
    /\ hist.queries[1].r = "Ok"
    /\ hist.queries[2].r = "Ok"
    /\ hist.queries[1].updatesSent = 1
    /\ hist.queries[2].updatesSent = 1
    /\ hist.queries[1].state # hist.queries[2].state

\* C13 (control-plane throttling): with check_count = k >= 1 the read
\* thread services the control channels once every k loop iterations: from
\* the start, and from one control-plane pass to the next, k iterations.
C13_ServicedEveryK ==
    (config.check_count >= 1 /\ hist.period > 0) =>
        hist.period = config.check_count

\* C14 (shutdown liveness): once shutdown() has put its signal on the
\* shutdown channel the read thread ends, and until then it begins at most
\* check_count + 1 further loop iterations, whatever the peer sends.
C14_ShutdownLiveness ==
    /\ [](hist.afterSignal <= config.check_count + 1)
    /\ (chan.shutdown > 0) ~> WorkerGone

\* The read thread took the signal in a control-plane pass and ended, after
\* an iteration that read data from the socket with the signal queued.
C14_Witness ==
    /\ hist.exit = "shutdown"
    /\ worker.pc = "finished"
    /\ hist.afterSignal = config.check_count + 1
    /\ config.check_count > 0
    /\ hist.handled # <<>>

\* shutdown() was the only call made on an endpoint on which nothing had
\* happened, and it has returned.
IdleShutdownReturned ==
    /\ app.shutdown_result # <<>>
    /\ hist.calls = 1
    /\ hist.socketEvents = 0

\* C15 (graceful shutdown): shutdown() on an idle endpoint returns Ok(())
\* and the read thread has ended when it returns.
C15_GracefulShutdown ==
    IdleShutdownReturned =>
        /\ app.shutdown_result[1].r = "Ok"
        /\ WorkerGone

\* C16 (shutdown() result): the call returns Ok(()) exactly when the send on
\* the shutdown channel and the socket shutdown both succeeded; otherwise it
\* returns ShutdownError whose flags tell which step succeeded; the socket
\* shutdown is attempted whatever became of the send.
C16_ShutdownResult ==
    /\ app.handle = "shutting" => Len(hist.shutdownSteps) = 1
    /\ app.shutdown_result # <<>> =>
          /\ Len(hist.shutdownSteps) = 2
          /\ LET sent == hist.shutdownSteps[1] = "sent"
                 done == hist.shutdownSteps[2] = "socket_ok"
                 result == app.shutdown_result[1]
             IN  /\ result.r = "Ok" <=> (sent /\ done)
                 /\ result.r # "Ok" =>
                       result = [r |-> "ShutdownError",
                                 shutdown_succesfully |-> done,
                                 shutdown_requested_succesfully |-> sent]

\* The signal could not be sent because the read thread had ended; the
\* socket shutdown was made all the same and succeeded, and shutdown()
\* returned ShutdownError with one flag set.
C16_Witness ==
    /\ hist.shutdownSteps = <<"send_failed", "socket_ok">>
    /\ app.shutdown_result =
          <<[r |-> "ShutdownError", shutdown_succesfully |-> TRUE,
             shutdown_requested_succesfully |-> FALSE]>>

\* C17 (termination causes): the read thread ends only because it took a
\* shutdown signal that shutdown() had sent, because the handle's end of a
\* control channel was dropped, or because a send to the application
\* failed.
C17_TerminationCauses ==
    WorkerGone =>
        \/ hist.exit = "shutdown" /\ "sent" \in {hist.shutdownSteps[i] :
                                        i \in DOMAIN hist.shutdownSteps}
        \/ hist.exit = "control_dropped" /\ app.handle = "gone"
        \/ hist.exit = "send_failed" /\ app.handle = "gone"

\* The handle was dropped and shutdown() was never called.
DroppedWithoutShutdown ==
    app.handle = "gone" /\ hist.shutdownSteps = <<>>

\* The read thread is in a control-plane pass, or about to begin one.
InPass ==
    \/ worker.pc \in {"query", "update"}
    \/ worker.pc = "loop" /\ worker.counter = config.check_count

\* C18 (self-cancellation): after the handle is dropped without shutdown()
\* the read thread ends; it does not get past a control-plane pass (a step
\* it takes in a pass stays in the pass or ends the thread, it never goes
\* on to the read), and it ends for a dropped channel end or a failed send
\* unless it had ended before.
C18_SelfCancellation ==
    /\ DroppedWithoutShutdown ~> WorkerGone
    /\ [][(DroppedWithoutShutdown /\ InPass /\ worker' # worker) =>
              worker'.pc \in {"query", "update", "finished"}]_vars
    /\ []((DroppedWithoutShutdown /\ WorkerGone) => hist.exit # "shutdown")

\* The handle was dropped and the read thread found a control channel
\* disconnected in its next pass.
C18_Witness ==
    /\ DroppedWithoutShutdown
    /\ worker.pc = "finished"
    /\ hist.exit = "control_dropped"

\* C19 (read errors are not terminal): a read that fails with another error
\* than WouldBlock posts one ReadError and the read thread goes on with its
\* next iteration, the frame buffer as it was; the thread ends only when
\* the post fails, the handle being gone.  A WouldBlock read posts nothing.
C19_ReadErrorsNotTerminal ==
    [][/\ WorkerReadError =>
            /\ worker'.protocol = worker.protocol
            /\ IF app.handle = "gone"
               THEN /\ worker'.pc = "finished"
                    /\ chan'.message = chan.message
                    /\ hist'.posted = hist.posted
               ELSE /\ worker'.pc = "loop"
                    /\ chan'.message = Append(chan.message,
                           InternalError("ReadError", 0, <<>>))
                    /\ hist'.posted = Append(hist.posted,
                           InternalError("ReadError", 0, <<>>))
       /\ WorkerReadWouldBlock =>
            /\ worker'.protocol = worker.protocol
            /\ worker'.pc = "loop"
            /\ chan'.message = chan.message
            /\ hist'.posted = hist.posted]_vars

\* A ReadError was posted and the read thread went on: it framed and posted
\* a message after it.
C19_Witness ==
    /\ Len(hist.posted) = 2
    /\ hist.posted[1].variant = "ReadError"
    /\ hist.posted[2].variant = "Ok"
    /\ ~WorkerGone

\* C20 (get_message outcomes): a call returns Ok(None) exactly when the
\* channel is empty and the read thread alive, an item (a message or an
\* error report) whenever one is queued, and Disconnected exactly when the
\* read thread has ended and everything it posted has been returned; after
\* Disconnected every later call returns Disconnected.
C20_GetMessageOutcomes ==
    hist.lastGet # <<>> =>
        LET g == hist.lastGet[1]
        IN  /\ g.r = "None" <=> (g.queued = 0 /\ ~g.gone)
            /\ g.r \in {"Some", "Err"} <=> g.queued > 0
            /\ g.r = "Disconnected" <=> (g.queued = 0 /\ g.gone)
            /\ g.r = "Disconnected" =>
                  /\ WorkerGone
                  /\ chan.message = <<>>
                  /\ Len(hist.returned) = Len(hist.posted)
            /\ (hist.prevGet # <<>> /\ hist.prevGet[1].r = "Disconnected") =>
                  g.r = "Disconnected"

\* The read thread ended with an item posted; get_message returned the item
\* and then Disconnected.
C20_Witness ==
    /\ hist.lastGet # <<>>
    /\ hist.lastGet[1].r = "Disconnected"
    /\ hist.prevGet # <<>>
    /\ hist.prevGet[1].r \in {"Some", "Err"}
    /\ hist.prevGet[1].gone

(***************************************************************************)
(* Claims about the application's operations.                              *)
(***************************************************************************)
RECURSIVE Flatten(_)
\* The bytes of a sequence of writes, in order.
Flatten(ws) == IF ws = <<>> THEN <<>> ELSE Head(ws).bytes \o Flatten(Tail(ws))

\* The writes the k-th write_message call made on the wire.
WritesOf(k) ==
    SelectSeq(sock.wire, LAMBDA w : w.by = "app" /\ w.id = k)

\* What the write_message calls returned and wrote agrees with their
\* arguments.
WriteMessageResults ==
    /\ \A k \in DOMAIN hist.writes :
          LET w == hist.writes[k]
              message == ConstructMessage(w.msg.command, w.msg.payload)
          IN  /\ w.r = "MessageConstructionFailed" <=> message = <<>>
              /\ w.r = "MessageConstructionFailed" => WritesOf(k) = <<>>
              /\ w.r = "Ok" => <<Flatten(WritesOf(k))>> = message
              /\ w.r \in {"", "MessageSendFailed"} =>
                    \E n \in 0..Len(message[1]) :
                        Flatten(WritesOf(k)) = SubSeq(message[1], 1, n)
              /\ (w.r = "" <=> (k = Len(hist.writes) /\ app.pc = "write_all"))
    /\ app.pc = "write_all" =>
          LET w == hist.writes[Len(hist.writes)]
          IN  Flatten(WritesOf(Len(hist.writes))) \o app.pending =
                  ConstructMessage(w.msg.command, w.msg.payload)[1]

\* C21 (write_message): a call whose construct_message fails returns
\* MessageConstructionFailed and writes nothing; otherwise it returns Ok(())
\* with the whole constructed message written, or MessageSendFailed; no
\* step of the call changes a channel or the read thread's state.
C21_WriteMessage ==
    /\ []WriteMessageResults
    /\ [][(hist'.writes # hist.writes \/ app'.pending # app.pending)
             => UNCHANGED <<chan, worker>>]_vars

\* One write_message call failed to construct its message and another
\* returned Ok(()) after two writes, while a message of the peer was
\* waiting for the read thread.
C21_Witness ==
    /\ Len(hist.writes) = 2
    /\ hist.writes[1].r = "MessageConstructionFailed"
    /\ hist.writes[2].r = "Ok"
    /\ Len(WritesOf(2)) = 2
    /\ sock.inbound # <<>>

\* C22 (no interleaving below the message): on the wire the bytes of one
\* message, written by write_message or as an immediate reply of the read
\* thread, are never split by bytes of another message.
C22_WholeMessages ==
    \A i, j, k \in DOMAIN sock.wire :
        (/\ i < j
         /\ j < k
         /\ sock.wire[i].by = sock.wire[k].by
         /\ sock.wire[i].id = sock.wire[k].id)
        => (/\ sock.wire[j].by = sock.wire[i].by
            /\ sock.wire[j].id = sock.wire[i].id)

\* C25 (get_busy_state always returns): a call that waits for its answer
\* eventually returns; the answer the read thread sends is its busy state
\* at that pass, idle while no update was applied; the call returns the
\* answer sent, or Disconnected with the read thread gone.
C25_GetBusyStateReturns ==
    /\ (app.pc = "get_busy_state") ~> (app.pc = "idle")
    /\ [][Len(chan'.queried) > Len(chan.queried) =>
             /\ chan'.queried = Append(chan.queried, worker.protocol.busy_state)
             /\ worker.protocol.busy_state =
                   (IF UpdatesApplied = 0 THEN Idle
                    ELSE hist.updates[UpdatesApplied])
             /\ app.pc = "get_busy_state"]_vars
    /\ [][Len(hist'.queries) > Len(hist.queries) =>
             LET q == hist'.queries[Len(hist'.queries)]
             IN  /\ q.r \in {"Ok", "Disconnected"}
                 /\ q.r = "Ok" =>
                       /\ app.pc = "get_busy_state"
                       /\ chan.queried # <<>>
                       /\ q.state = <<Head(chan.queried)>>
                 /\ q.r = "Disconnected" => WorkerGone /\ chan.queried = <<>>
                 /\ app'.pc = "idle"]_vars

\* A get_busy_state call waited for the read thread, which had an update to
\* apply, and returned the state the read thread answered with.
C25_Witness ==
    /\ Len(hist.queries) = 1
    /\ hist.queries[1].r = "Ok"
    /\ hist.queries[1].state = <<Working(<<97>>)>>
    /\ hist.peerSent # <<>>
    /\ app.pc = "idle"

\* A step in which the read thread moves.
PcStep(from, to) == worker.pc = from /\ worker'.pc = to

\* C29 (control-plane pass order): a pass checks the shutdown channel, then
\* answers at most one query, then takes updates until none is left, and
\* only then reads; a pass that finds a shutdown signal ends the thread with
\* the query and update channels, the busy state and the socket untouched,
\* and the ended thread does nothing more.
C29_PassOrder ==
    /\ [][/\ PcStep("loop", "query") =>
               worker.counter = config.check_count /\ chan.shutdown = 0
          /\ PcStep("loop", "read") => worker.counter # config.check_count
          /\ (worker.pc # "query" /\ worker'.pc = "query") => worker.pc = "loop"
          /\ (worker.pc # "update" /\ worker'.pc = "update") =>
               worker.pc = "query"
          /\ (worker.pc # "read" /\ worker'.pc = "read") =>
               \/ worker.pc = "loop"
               \/ worker.pc = "update" /\ chan.update = <<>>
          /\ Len(chan'.queried) > Len(chan.queried) =>
               /\ PcStep("query", "update")
               /\ Len(chan'.queried) = Len(chan.queried) + 1
               /\ chan'.query = chan.query - 1
          /\ Len(chan'.update) < Len(chan.update) =>
               /\ PcStep("update", "update")
               /\ chan'.update = Tail(chan.update)
               /\ worker'.protocol.busy_state = Head(chan.update)
          /\ Len(sock'.inbound) < Len(sock.inbound) => PcStep("read", "drain")
          ]_vars
    /\ [][(/\ worker.pc = "loop"
            /\ worker.counter = config.check_count
            /\ chan.shutdown > 0
            /\ worker' # worker) =>
               /\ worker'.pc = "finished"
               /\ worker'.protocol = worker.protocol
               /\ chan' = [chan EXCEPT !.shutdown = @ - 1]
               /\ sock' = sock]_vars
    /\ [][WorkerGone => worker' = worker]_vars

\* The read thread ended on the shutdown signal with an update still queued
\* and unread bytes of the peer on the socket.
C29_Witness ==
    /\ hist.exit = "shutdown"
    /\ worker.pc = "finished"
    /\ chan.update # <<>>
    /\ sock.inbound # <<>>

\* C30 (busy state stable while draining): the busy state changes only when
\* the control-plane pass takes an update; process_new_buffer leaves it as
\* it is, and every message framed is judged against the busy state the
\* read thread held when the drain loop was entered.
C30_BusyStateStable ==
    /\ [][/\ worker'.protocol.busy_state # worker.protocol.busy_state =>
               /\ PcStep("update", "update")
               /\ chan.update # <<>>
               /\ worker'.protocol.busy_state = Head(chan.update)
          /\ Len(hist'.handled) > Len(hist.handled) =>
               /\ worker.pc = "drain"
               /\ hist'.handled[Len(hist'.handled)].busy =
                     worker.protocol.busy_state
          /\ worker.pc = "drain" =>
               worker'.protocol.busy_state = worker.protocol.busy_state
          ]_vars
    /\ [](worker.pc = "drain" =>
            ProcessNewBuffer(worker.protocol, worker.buffer).pb.busy_state =
                worker.protocol.busy_state)

\* In one drain loop a message was judged against the busy state Working,
\* the next message of the same read is staged, and an update waits in the
\* channel.
C30_Witness ==
    /\ worker.pc = "drain"
    /\ Len(hist.handled) = 1
    /\ hist.handled[1].busy = Working(<<97>>)
    /\ Len(worker.protocol.incoming_buffer_vec) >= HEADER_SIZE
    /\ chan.update # <<>>

\* The await_message call on record.
Await == hist.op[1]

\* C23 (await_message): the call removes at most one item from the channel
\* and returns exactly it, Ok(Some) for a message and Err for an error
\* report; it returns Ok(None) only with nothing removed and never when an
\* item was already queued at the call.
C23_AwaitMessage ==
    (hist.op # <<>> /\ Await.name = "await_message") =>
        /\ Len(Await.removed) <= 1
        /\ Await.r \in {"Some", "Err"} =>
              /\ Len(Await.removed) = 1
              /\ Await.ret = <<GetMessageResult(Await.removed[1])>>
              /\ Await.r = "Some" <=> Await.removed[1].variant = "Ok"
        /\ Await.r \in {"", "None", "Disconnected"} => Await.removed = <<>>
        /\ Await.r = "None" => Await.queued = 0

\* The clear_message_queue call on record, and whether a step is one of
\* its turns.
Clear == hist.op[1]

ClearTurn == app.pc = "clear_message_queue" /\ hist'.op # hist.op

\* C24 (clear_message_queue): the call returns Ok(()) only at a get_message
\* that found the channel empty, having removed nothing but messages; at an
\* error report it stops and returns that error, and at Disconnected it
\* stops, with every item queued behind still in the channel.
C24_ClearMessageQueue ==
    /\ [](hist.op # <<>> /\ Clear.name = "clear_message_queue" =>
            /\ \A i \in 1..(Len(Clear.removed) - 1) :
                   Clear.removed[i].variant = "Ok"
            /\ Clear.r = "Err" =>
                  /\ Clear.removed # <<>>
                  /\ Clear.removed[Len(Clear.removed)].variant # "Ok"
                  /\ Clear.ret = <<GetMessageResult(
                                      Clear.removed[Len(Clear.removed)])>>
            /\ Clear.r # "Err" =>
                  \A i \in DOMAIN Clear.removed : Clear.removed[i].variant = "Ok")
    /\ [][ClearTurn =>
            /\ hist'.op[1].r = "Ok" => chan.message = <<>> /\ chan' = chan
            /\ hist'.op[1].r = "Disconnected" =>
                  chan.message = <<>> /\ WorkerGone /\ chan' = chan
            /\ hist'.op[1].r = "Err" => hist'.op[1].left = Len(chan'.message)
            /\ hist'.op[1].r \in {"", "Err"} =>
                  /\ chan.message # <<>>
                  /\ chan' = [chan EXCEPT !.message = Tail(@)]
                  /\ hist'.op[1].removed =
                        Append(Clear.removed, Head(chan.message))]_vars

\* clear_message_queue returned the error report that headed the queue and
\* left the message queued behind it in the channel.
C24_Witness ==
    /\ hist.op # <<>>
    /\ Clear.name = "clear_message_queue"
    /\ Clear.r = "Err"
    /\ Clear.left = 1
    /\ chan.message # <<>>
    /\ chan.message[1].variant = "Ok"

(***************************************************************************)
(* Claims about the frame buffer's cases.                                  *)
(***************************************************************************)
\* Where the bytes of the first message not yet emitted begin in the
\* stream, and that message.
NextStart(f) == Len(Wire(f.emitted))

NextMessage(f) == msgs[Len(f.emitted) + 1]

\* The bytes fed behind the messages emitted so far.
FedBehind(f) == SubSeq(Stream, NextStart(f) + 1, f.fed)

\* C26 (partial payload after a header): once the bytes fed cover the
\* header of the next message but not all of its payload, the call has
\* returned None without a panic, the header is pending with its length as
\* target, the payload bytes fed so far are in current_message and nothing
\* is staged.
C26_PartialPayload ==
    (/\ fA.calls > 0
     /\ Len(fA.emitted) < Len(msgs)
     /\ fA.emitted = SubSeq(msgs, 1, Len(fA.emitted))
     /\ fA.fed >= NextStart(fA) + HEADER_SIZE
     /\ fA.fed < NextStart(fA) + HEADER_SIZE + Len(NextMessage(fA).payload))
    => (/\ ~fA.panicked
        /\ fA.lastRet = <<>>
        /\ fA.pb.current_command = <<NextMessage(fA).command>>
        /\ fA.pb.current_target = Len(NextMessage(fA).payload)
        /\ fA.pb.current_message =
               SubSeq(Stream, NextStart(fA) + HEADER_SIZE + 1, fA.fed)
        /\ fA.pb.incoming_buffer_vec = <<>>)

\* C27 (payload spillover): a call that emits a message leaves staged
\* exactly the bytes fed behind that message, in order; and a single chunk
\* holding two complete messages makes the first call emit the first with
\* the second staged, and the draining call emit the second, before any
\* further read.
C27_Spillover ==
    /\ (fA.lastRet # <<>> /\ ~fA.panicked) =>
          /\ fA.lastRet = <<msgs[Len(fA.emitted)]>>
          /\ fA.emitted = SubSeq(msgs, 1, Len(fA.emitted))
          /\ fA.pb.incoming_buffer_vec = FedBehind(fA)
          /\ fA.pb.current_command = <<>>
          /\ fA.pb.current_message = <<>>
    /\ (Len(msgs) = 2 /\ fA.calls > 0 /\ fA.first = Len(Stream)) =>
          /\ ~fA.panicked
          /\ fA.calls = 1 =>
                /\ fA.emitted = <<msgs[1]>>
                /\ fA.pb.incoming_buffer_vec = Wire(<<msgs[2]>>)
          /\ fA.calls = 2 =>
                /\ fA.emitted = msgs
                /\ fA.lastRet = <<msgs[2]>>
                /\ fA.pb.incoming_buffer_vec = <<>>
          /\ fA.calls = 3 =>
                /\ fA.emitted = msgs
                /\ fA.lastRet = <<>>

\* Two messages with payloads came in one chunk and the draining call has
\* emitted the second.
C27_Witness ==
    /\ Len(msgs) = 2
    /\ msgs[1].payload # <<>>
    /\ msgs[2].payload # <<>>
    /\ fA.first = Len(Stream)
    /\ fA.calls = 2
    /\ fA.emitted = msgs

\* No call returns None or panics once the header of a message with an
\* empty payload is fed.
EmptyPayloadNotDelayed ==
    (/\ fA.calls > 0
     /\ Len(fA.emitted) < Len(msgs)
     /\ fA.emitted = SubSeq(msgs, 1, Len(fA.emitted))
     /\ NextMessage(fA).payload = <<>>
     /\ fA.lastRet = <<>> \/ fA.panicked)
    => (/\ ~fA.panicked
        /\ fA.fed < NextStart(fA) + HEADER_SIZE)

\* C28 (zero-length payload): a message with an empty payload is emitted by
\* the call that completes its header, without waiting for further bytes,
\* and after the emitting call the bytes fed behind the header are staged.
C28_EmptyPayload ==
    /\ EmptyPayloadNotDelayed
    /\ (/\ fA.lastRet # <<>>
        /\ fA.lastRet[1].payload = <<>>)
       => (/\ ~fA.panicked
           /\ fA.pb.incoming_buffer_vec = FedBehind(fA)
           /\ fA.pb.current_command = <<>>)

\* The second chunk completed the header of a message with an empty
\* payload and carried two bytes more: the message was emitted by that call
\* and the two bytes are staged.
C28_Witness ==
    /\ Len(msgs) = 2
    /\ msgs[1].payload = <<>>
    /\ fA.first < HEADER_SIZE
    /\ fA.calls = 2
    /\ fA.lastRet = <<msgs[1]>>
    /\ Len(fA.pb.incoming_buffer_vec) = 2

(***************************************************************************)
(* Claims about failures and the read thread's life.                       *)
(***************************************************************************)
\* The record of the message a step of the drain loop has just handled.
JustHandled == hist'.handled[Len(hist'.handled)]

\* C31 (immediate-reply failures): a reply that cannot be written is
\* reported by one WriteError and a reply that construct_message refuses
\* by one ImmediateMessageConstructError with the command and payload the
\* immediate-route predicate returned; the inbound message is not posted,
\* nothing is written, and the read thread goes on with the drain loop,
\* or ends when the handle is gone and the report cannot be sent.
C31_ReplyFailures ==
    [][Len(hist'.handled) > Len(hist.handled) =>
        LET h == JustHandled
            route == MessageIsAnsweredViaImmediateRoute(
                         h.msg.command, h.msg.payload,
                         worker.protocol.busy_state)
            failed == h.outcome \in {"WriteError",
                                     "ImmediateMessageConstructError"}
            report == chan'.message[Len(chan'.message)]
        IN  /\ (route # <<>>
                /\ ConstructMessage(route[1].command, route[1].payload) = <<>>)
               => h.outcome = "ImmediateMessageConstructError"
            /\ h.outcome = "ImmediateMessageConstructError" =>
                  /\ route # <<>>
                  /\ ConstructMessage(route[1].command, route[1].payload) = <<>>
            /\ h.outcome = "WriteError" =>
                  /\ route # <<>>
                  /\ ConstructMessage(route[1].command, route[1].payload) # <<>>
            /\ failed =>
                  /\ sock' = sock
                  /\ IF HandleGone
                     THEN worker'.pc = "finished" /\ chan' = chan
                     ELSE /\ worker'.pc = "drain"
                          /\ chan' = [chan EXCEPT !.message = Append(@, report)]
                          /\ report.variant = h.outcome
                          /\ h.outcome = "ImmediateMessageConstructError" =>
                                /\ report.command = route[1].command
                                /\ report.payload = route[1].payload]_vars

\* The read thread reported a reply it could not construct and, for the
\* next message, a reply it could not write; both reports are queued, no
\* message is, and the thread runs on.
C31_Witness ==
    /\ Len(hist.handled) = 2
    /\ hist.handled[1].outcome = "ImmediateMessageConstructError"
    /\ hist.handled[2].outcome = "WriteError"
    /\ Len(chan.message) = 2
    /\ chan.message[1].variant = "ImmediateMessageConstructError"
    /\ chan.message[1].payload = <<97>>
    /\ chan.message[2].variant = "WriteError"
    /\ ~WorkerGone

\* The read thread panicked on a header that parse_header rejects: the
\* header is still staged.
ParseFailed ==
    /\ worker.pc = "panicked"
    /\ LET h == MessageSliceToHeaderArray(worker.protocol.incoming_buffer_vec)
       IN  h # <<>> /\ ~ParseHeader(h[1].header).ok

\* C32 (header parse failure is fatal): after parse_header rejected a
\* header the read thread takes no step, so nothing more is framed, posted
\* or read; get_message returns the items posted before, in the order they
\* were posted, and Disconnected once none is left.
C32_ParseFailureFatal ==
    /\ [][ParseFailed =>
            /\ worker' = worker
            /\ hist'.handled = hist.handled
            /\ hist'.posted = hist.posted
            /\ sock'.wire = sock.wire
            /\ Len(sock'.inbound) >= Len(sock.inbound)
            /\ hist'.calls > hist.calls =>
                  IF chan.message # <<>>
                  THEN /\ chan'.message = Tail(chan.message)
                       /\ hist'.lastGet[1].r \in {"Some", "Err"}
                       /\ hist'.returned = Append(hist.returned,
                               GetMessageResult(Head(chan.message)))
                  ELSE /\ hist'.lastGet[1].r = "Disconnected"
                       /\ hist'.returned = hist.returned
                       /\ chan' = chan]_vars
    /\ [](ParseFailed =>
            /\ Len(hist.returned) + Len(chan.message) = Len(hist.posted)
            /\ \A i \in DOMAIN hist.returned :
                   hist.returned[i] = GetMessageResult(hist.posted[i])
            /\ \A i \in DOMAIN chan.message :
                   chan.message[i] = hist.posted[Len(hist.returned) + i])

\* The read thread posted a message and then panicked on a bad header;
\* get_message returned the message and, called again, Disconnected.
C32_Witness ==
    /\ ParseFailed
    /\ Len(hist.posted) = 1
    /\ hist.prevGet # <<>>
    /\ hist.prevGet[1].r = "Some"
    /\ hist.prevGet[1].gone
    /\ hist.lastGet[1].r = "Disconnected"

\* The peer has closed the connection and all it sent is read and handled:
\* every read returns Ok(0) from now on, unless it fails.
PeerDone ==
    /\ sock.peerClosed
    /\ sock.inbound = <<>>
    /\ worker.pc # "drain"

\* A step in which a read fails with an error other than WouldBlock.
ReadFails == worker.pc = "read" /\ hist'.socketEvents > hist.socketEvents

C34_WorkerAlive ==
    (/\ app.handle = "alive"
     /\ hist.shutdownSteps = <<>>
     /\ ~ParseFailed)
    => (/\ ~WorkerGone
        /\ \A k \in DOMAIN hist.queries : hist.queries[k].r = "Ok"
        /\ hist.lastGet # <<>> => hist.lastGet[1].r # "Disconnected")

\* The read thread is between two reads: it runs and is not in its drain
\* loop.
BetweenReads == worker.pc \in {"loop", "query", "update", "read"}

\* How many bytes of the peer the read thread has read, and how many whole
\* messages of the peer those bytes hold.
BytesRead == Len(Wire(PeerSentMessages)) - Len(sock.inbound)

WholeMessagesRead ==
    Cardinality({k \in DOMAIN hist.peerSent :
                    Len(Wire(SubSeq(PeerSentMessages, 1, k))) <= BytesRead})

\* C35 (the frame buffer is drained before the next read): between two
\* reads the frame buffer holds no complete message: no header is pending
\* and fewer than HEADER_SIZE bytes are staged, or a header is pending and
\* current_message is shorter than its target; every whole message among
\* the bytes read has been handled.
C35_DrainedBeforeRead ==
    BetweenReads =>
        /\ \/ /\ worker.protocol.current_command = <<>>
              /\ Len(worker.protocol.incoming_buffer_vec) < HEADER_SIZE
           \/ /\ worker.protocol.current_command # <<>>
              /\ Len(worker.protocol.current_message)
                   < worker.protocol.current_target
        /\ Len(hist.handled) = WholeMessagesRead

\* Of two messages the peer sent one is handled and the first byte of the
\* next is staged; the thread is back at the head of its loop with the rest
\* unread.
C35_Witness ==
    /\ worker.pc = "loop"
    /\ Len(hist.handled) = 1
    /\ Len(worker.protocol.incoming_buffer_vec) = 1
    /\ Len(hist.peerSent) = 2
    /\ sock.inbound # <<>>

\* The responses the read thread has sent so far, and the queries the
\* handle has sent.
ResponsesSent ==
    Cardinality({k \in DOMAIN hist.queries : hist.queries[k].r = "Ok"})
        + Len(chan.queried)

QueriesSent ==
    Cardinality({k \in DOMAIN hist.queries : hist.queries[k].r = "Ok"})
        + (IF app.pc = "get_busy_state" THEN 1 ELSE 0)

\* C36 (query/response pairing): a response is sent only by a query step
\* that took a query off the channel, one for one; the responses sent never
\* outnumber the queries, the response channel holds at most one value and
\* none when a get_busy_state call begins, so a call receives the answer to
\* its own query.
C36_QueryResponsePairing ==
    /\ [](/\ ResponsesSent <= QueriesSent
          /\ Len(chan.queried) <= 1
          /\ chan.query <= 1
          /\ chan.queried # <<>> => chan.query = 0
          /\ app.pc # "get_busy_state" => chan.queried = <<>>)
    /\ [][Len(chan'.queried) > Len(chan.queried) =>
            /\ worker.pc = "query"
            /\ chan.query > 0
            /\ chan'.query = chan.query - 1
            /\ Len(chan'.queried) = Len(chan.queried) + 1]_vars
    /\ [][(worker.pc = "query" /\ worker' # worker /\ chan.query > 0
            /\ ~HandleGone) =>
               chan'.queried = Append(chan.queried,
                                      worker.protocol.busy_state)]_vars

\* A second get_busy_state call waits with its answer in the response
\* channel, after a first call received its own.
C36_Witness ==
    /\ app.pc = "get_busy_state"
    /\ Len(hist.queries) = 1
    /\ hist.queries[1].r = "Ok"
    /\ Len(chan.queried) = 1
    /\ chan.query = 0

\* C37 (iteration counter bound): the counter stays within 0..check_count;
\* it changes only at the head of the loop, where it is reset to 0 in the
\* iterations that service the control plane (counter = check_count) and
\* incremented by one in the others; so for check_count = 0 as for any other
\* value the read thread, as long as it runs, services the control plane
\* again and again.
C37_CounterBound ==
    /\ [](worker.counter \in 0..config.check_count)
    /\ [][worker'.counter # worker.counter => worker.pc = "loop"]_vars
    /\ [][(worker.pc = "loop" /\ worker' # worker) =>
            IF worker.counter = config.check_count
            THEN /\ worker'.counter = 0
                 /\ worker'.pc \in {"query", "finished"}
            ELSE /\ worker'.counter = worker.counter + 1
                 /\ worker'.pc = "read"]_vars
    /\ []<>(WorkerGone \/ worker.pc = "query")

\* With check_count = 1 the read thread is at the head of its loop with
\* counter = 1, a control-plane pass behind it and the next one due.
C37_Witness ==
    /\ config.check_count = 1
    /\ worker.pc = "loop"
    /\ worker.counter = 1
    /\ hist.period > 0
    /\ ~WorkerGone

====
